---- MODULE Spec2Model ----
(***************************************************************************)
(* A model of braydio/Override-RSA: the dispatcher of auto-rsa.py (command *)
(* line parsing, account initialization, place_order, get_holdings and the *)
(* chat-bot handlers) and the Schwab, Robinhood and Fennel adapters        *)
(* (init, holdings, transaction).                                          *)
(*                                                                         *)
(* Strings the program inspects character by character (lower(), upper(),  *)
(* int(), split) are sequences of one-character strings; names of          *)
(* adapters, messages and program counters are plain strings.              *)
(***************************************************************************)
EXTENDS Integers, Sequences, FiniteSets, TLC

(***************************************************************************)
(* Characters and the string conversions of the command surface            *)
(***************************************************************************)
LowerChars == <<"a","b","c","d","e","f","g","h","i","j","k","l","m",
                "n","o","p","q","r","s","t","u","v","w","x","y","z">>
UpperChars == <<"A","B","C","D","E","F","G","H","I","J","K","L","M",
                "N","O","P","Q","R","S","T","U","V","W","X","Y","Z">>
DigitChars == <<"0","1","2","3","4","5","6","7","8","9">>

IndexIn(c, tbl) == CHOOSE i \in 1..Len(tbl) : tbl[i] = c
IsIn(c, tbl) == \E i \in 1..Len(tbl) : tbl[i] = c

\* str.lower() and str.upper(), one character at a time
ToLowerChar(c) == IF IsIn(c, UpperChars) THEN LowerChars[IndexIn(c, UpperChars)] ELSE c
ToUpperChar(c) == IF IsIn(c, LowerChars) THEN UpperChars[IndexIn(c, LowerChars)] ELSE c
Lower(s) == [i \in 1..Len(s) |-> ToLowerChar(s[i])]
Upper(s) == [i \in 1..Len(s) |-> ToUpperChar(s[i])]

\* int(str): an optional sign followed by one or more decimal digits
\* (the alphabet of the model holds no white space and no underscore)
IsDigit(c) == IsIn(c, DigitChars)
DigitVal(c) == IndexIn(c, DigitChars) - 1
AllDigits(s) == Len(s) > 0 /\ \A i \in 1..Len(s) : IsDigit(s[i])
HasSign(s) == Len(s) > 0 /\ s[1] \in {"+", "-"}
CanParseInt(s) == IF HasSign(s) THEN AllDigits(Tail(s)) ELSE AllDigits(s)
RECURSIVE DigitsValue(_)
DigitsValue(s) ==
    IF s = <<>> THEN 0
    ELSE 10 * DigitsValue(SubSeq(s, 1, Len(s) - 1)) + DigitVal(s[Len(s)])
IntOf(s) ==
    IF HasSign(s)
    THEN (IF s[1] = "-" THEN 0 - DigitsValue(Tail(s)) ELSE DigitsValue(Tail(s)))
    ELSE DigitsValue(s)

(***************************************************************************)
(* Literals of auto-rsa.py                                                 *)
(***************************************************************************)
s_all       == <<"a","l","l">>
s_ally      == <<"a","l","l","y">>
s_fidelity  == <<"f","i","d","e","l","i","t","y">>
s_robinhood == <<"r","o","b","i","n","h","o","o","d">>
s_rh        == <<"r","h">>
s_schwab    == <<"s","c","h","w","a","b">>
s_webull    == <<"w","e","b","u","l","l">>
s_wb        == <<"w","b">>
s_tradier   == <<"t","r","a","d","i","e","r">>
s_dry       == <<"d","r","y">>
s_true      == <<"t","r","u","e">>
s_holdings  == <<"h","o","l","d","i","n","g","s">>

\* brokerages = ["all", "ally", "fidelity", "robinhood", "rh", "schwab", "webull", "wb", "tradier"]
brokerages == <<s_all, s_ally, s_fidelity, s_robinhood, s_rh, s_schwab,
                s_webull, s_wb, s_tradier>>
InBrokerages(s) == \E i \in 1..Len(brokerages) : brokerages[i] = s

\* the adapters the dispatcher imports, in the order "all" walks them
Adapters == <<"ally", "robinhood", "schwab", "webull", "tradier">>
AdapterSet == {Adapters[i] : i \in 1..Len(Adapters)}

\* what the program prints or sends
MsgInvalidAmount == "Error: Invalid amount"
MsgInvalidBroker == "Error: Invalid broker"
MsgNoArgs        == "Error: No command line arguments and no discord token"
MsgClosed        == "Unable to place order: Market is closed"
MsgErrorPlacing  == "Error placing order"
MsgErrorHoldings == "Error getting holdings"
MsgError         == "Error"
MsgIndexError    == "IndexError: list index out of range"
MsgNameError     == "NameError: name is not defined"
MsgRestart       == "Restarting..."
MsgPonged        == "ponged"
MsgPong          == "pong"

NoAmount == [kind |-> "unbound", n |-> 0, s |-> <<>>]
IntAmount(k) == [kind |-> "int", n |-> k, s |-> <<>>]
StrAmount(t) == [kind |-> "str", n |-> 0, s |-> t]

(***************************************************************************)
(* Inputs of the dispatcher                                                *)
(***************************************************************************)
MaxArgc == 6            \* longest command line explored (len(sys.argv))

ScriptName   == <<"r","s","a">>
ActionTokens == {<<"b","u","y">>, <<"S","e","l","l">>}
AmountTokens == {<<"5">>, <<"-","2">>, s_all, <<"a","b","c">>, <<"1",".","5">>}
StockTokens  == {<<"a","a","P","L">>}
BrokerTokens == {brokerages[i] : i \in 1..Len(brokerages)}
                \cup {s_dry, <<"S","c","h","w","a","b">>, <<"f","o","o">>}
DryTokens    == {s_dry, <<"D","R","Y">>, <<"n","o">>}
BotDryTokens == {s_dry, <<"T","r","u","e">>, <<"n","o">>}

\* the tokens a command line may hold at sys.argv[i], given sys.argv[1]
ArgTokens(i, first) ==
    CASE i = 0 -> {ScriptName}
      [] i = 1 -> ActionTokens \cup {s_holdings}
      [] i = 2 -> IF first = s_holdings THEN BrokerTokens ELSE AmountTokens
      [] i = 3 -> IF first = s_holdings THEN {} ELSE StockTokens
      [] i = 4 -> BrokerTokens
      [] OTHER -> DryTokens

RECURSIVE LinesOfLen(_)
LinesOfLen(n) ==
    IF n = 1 THEN {<<ScriptName>>}
    ELSE UNION { { Append(av, tok) :
                     tok \in ArgTokens(n - 1, IF Len(av) >= 2 THEN av[2] ELSE <<>>) }
                 : av \in LinesOfLen(n - 1) }
CommandLines == UNION { LinesOfLen(n) : n \in 1..MaxArgc }

\* local times of day datetime.now() may return while an order is placed
OrderTimes == {[h |-> 9, m |-> 30, s |-> 59], [h |-> 9, m |-> 31, s |-> 0],
               [h |-> 15, m |-> 59, s |-> 59], [h |-> 16, m |-> 0, s |-> 0]}

(***************************************************************************)
(* auto-rsa.py: command line parsing (lines 27-67)                         *)
(***************************************************************************)
Arg(av, i) == av[i + 1]
Argc(av) == Len(av)

NoParse == [status |-> "ok", out |-> <<>>, wanted_action |-> <<>>,
            wanted_amount |-> NoAmount, wanted_stock |-> <<>>,
            single_broker |-> <<>>, DRY |-> FALSE, cli_mode |-> FALSE,
            should_get_holdings |-> FALSE, bound |-> {}]

\* an exception nothing catches: the interpreter prints it and exits with 1
Uncaught(r, msg) == [r EXCEPT !.status = "exit", !.out = @ \o <<msg>>]
\* print(msg); sys.exit(1)
ExitWith(r, msg) == [r EXCEPT !.status = "exit", !.out = @ \o <<msg>>]

\* `sys.argv[2] is type (str)`: the identity of a str object with the class
\* `type`, which no command-line argument has
ArgIsTypeStr(a) == FALSE

\* a parser that takes every non-numeric amount for "all"
ParseAmount_AnyString(av) ==
    IF Argc(av) <= 2 THEN "IndexError"
    ELSE IF CanParseInt(Arg(av, 2)) THEN "int"
    ELSE "all"

\* lines 29-36: "int", "all", "invalid", or the IndexError that the bare
\* except catches and its own test of sys.argv[2] raises again
ParseAmount(av) ==
    IF Argc(av) <= 2 THEN "IndexError"
    ELSE IF CanParseInt(Arg(av, 2)) THEN "int"
    ELSE IF ArgIsTypeStr(Arg(av, 2)) /\ Arg(av, 2) = s_all THEN "all"
    ELSE "invalid"

\* a parser that compares the fifth argument with "dry" without lower()
ParseBrokerDry_CaseSensitive(av, r) ==
    LET a4 == Lower(Arg(av, 4))
        r1 == IF a4 = s_dry /\ ~InBrokerages(a4)
              THEN [r EXCEPT !.DRY = TRUE, !.single_broker = s_all,
                             !.bound = @ \cup {"DRY", "single_broker"}]
              ELSE IF InBrokerages(a4)
              THEN [r EXCEPT !.single_broker = a4,
                             !.bound = @ \cup {"single_broker"}]
              ELSE r
    IN  IF Argc(av) > 5
        THEN [r1 EXCEPT !.DRY = (Arg(av, 5) = s_dry),
                        !.bound = @ \cup {"DRY"}]
        ELSE r1

\* lines 41-50: binds single_broker and DRY, each only on some paths
ParseBrokerDry(av, r) ==
    LET a4 == Lower(Arg(av, 4))
        r1 == IF a4 = s_dry /\ ~InBrokerages(a4)
              THEN [r EXCEPT !.DRY = TRUE, !.single_broker = s_all,
                             !.bound = @ \cup {"DRY", "single_broker"}]
              ELSE IF InBrokerages(a4)
              THEN [r EXCEPT !.single_broker = a4,
                             !.bound = @ \cup {"single_broker"}]
              ELSE r
    IN  IF Argc(av) > 5
        THEN [r1 EXCEPT !.DRY = (Lower(Arg(av, 5)) = s_dry),
                        !.bound = @ \cup {"DRY"}]
        ELSE r1

\* lines 28-60
ParseOrderArgs(av) ==
    LET r0 == [NoParse EXCEPT !.wanted_action = Lower(Arg(av, 1)),
                              !.bound = {"wanted_action"}]
        amt == ParseAmount(av)
    IN  IF amt = "IndexError" THEN Uncaught(r0, MsgIndexError)
        ELSE IF amt = "invalid" THEN ExitWith(r0, MsgInvalidAmount)
        ELSE
        LET r1 == [r0 EXCEPT !.wanted_amount =
                                 IF amt = "int" THEN IntAmount(IntOf(Arg(av, 2)))
                                 ELSE StrAmount(s_all),
                             !.bound = @ \cup {"wanted_amount"}]
        IN  IF Argc(av) <= 3 THEN Uncaught(r1, MsgIndexError)
            ELSE
            LET r2 == [r1 EXCEPT !.wanted_stock = Upper(Arg(av, 3)),
                                 !.bound = @ \cup {"wanted_stock", "wanted_time",
                                                   "wanted_price"}]
            IN  IF Argc(av) <= 4 THEN Uncaught(r2, MsgIndexError)
                ELSE
                LET r3 == ParseBrokerDry(av, r2)
                IN  \* lines 56-57 print single_broker and DRY
                    IF ~({"single_broker", "DRY"} \subseteq r3.bound)
                    THEN Uncaught(r3, MsgNameError)
                    ELSE [r3 EXCEPT !.cli_mode = TRUE,
                                    !.should_get_holdings = FALSE,
                                    !.bound = @ \cup {"cli_mode",
                                                      "should_get_holdings"}]

\* lines 27-67
ParseCommandLine(av) ==
    IF Argc(av) > 1 /\ Arg(av, 1) # s_holdings
    THEN ParseOrderArgs(av)
    ELSE IF Argc(av) = 3 /\ Arg(av, 1) = s_holdings
    THEN [NoParse EXCEPT !.single_broker = Lower(Arg(av, 2)),
                         !.should_get_holdings = TRUE, !.cli_mode = TRUE,
                         !.bound = {"single_broker", "should_get_holdings",
                                    "cli_mode"}]
    ELSE [NoParse EXCEPT !.bound = {"cli_mode", "should_get_holdings"}]

(***************************************************************************)
(* auto-rsa.py: isMarketHours (lines 130-141)                              *)
(***************************************************************************)
SecondOfDay(t) == 3600 * t.h + 60 * t.m + t.s
\* now.replace(hour=.., minute=..) keeps the seconds of now
\* an opening time at second 0 of the minute 09:30
MARKET_OPEN_OnTheMinute(now) == [now EXCEPT !.h = 9, !.m = 30, !.s = 0]
MARKET_OPEN(now)  == [now EXCEPT !.h = 9, !.m = 30]
MARKET_CLOSE(now) == [now EXCEPT !.h = 16, !.m = 0]
isMarketHours(now) ==
    /\ SecondOfDay(MARKET_OPEN(now)) < SecondOfDay(now)
    /\ SecondOfDay(now) < SecondOfDay(MARKET_CLOSE(now))

\* lines 142-157, timeUntil=True: the hours and minutes of the report;
\* divmod(x, 3600)[0] is the floor of x / 3600, also for a negative x
HoursOf(seconds) == seconds \div 3600
MinutesOf(seconds) == (seconds \div 60) - HoursOf(seconds) * 60
isMarketHours_timeUntil(now) ==
    IF isMarketHours(now)
    THEN LET close_seconds == SecondOfDay(MARKET_CLOSE(now)) - SecondOfDay(now)
         IN  [open |-> TRUE, hours |-> HoursOf(close_seconds),
              minutes |-> MinutesOf(close_seconds)]
    ELSE LET open_seconds == SecondOfDay(MARKET_OPEN(now)) - SecondOfDay(now)
         IN  [open |-> FALSE, hours |-> HoursOf(open_seconds),
              minutes |-> MinutesOf(open_seconds)]

\* the local times datetime.now() may return: every minute of the day, at
\* its first and its last second, on every day of the week
ClockTimes == [h : 0..23, m : 0..59, s : {0, 59}, weekday : 0..6]

(***************************************************************************)
(* auto-rsa.py: place_order (lines 178-237)                                *)
(***************************************************************************)
\* the if/elif chain of lines 196-226: the adapters a broker token names
DispatchTargets(b) ==
    IF b = s_all THEN Adapters
    ELSE IF b = s_ally THEN <<"ally">>
    ELSE IF b = s_fidelity THEN <<>>
    ELSE IF b = s_robinhood \/ b = s_rh THEN <<"robinhood">>
    ELSE IF b = s_schwab THEN <<"schwab">>
    ELSE IF b = s_webull \/ b = s_wb THEN <<"webull">>
    ELSE IF b = s_tradier THEN <<"tradier">>
    ELSE <<>>
\* the else of line 227 is taken for every other token
IsDispatchBroker(b) ==
    b \in {s_all, s_ally, s_fidelity, s_robinhood, s_rh, s_schwab, s_webull,
           s_wb, s_tradier}

\* the awaits of one try block: the first one that raises ends the block
RECURSIVE CallsMade(_, _)
CallsMade(targets, raises) ==
    IF targets = <<>> THEN <<>>
    ELSE IF Head(targets) \in raises THEN <<Head(targets)>>
    ELSE <<Head(targets)>> \o CallsMade(Tail(targets), raises)

\* ctx is "None" from the command line and "ctx" from the chat bot; raises is
\* the set of adapters whose transaction operation raises when awaited
PlaceOrderOpen(action, amount, stock, broker, dry, ctx, raises) ==
    LET amountOk == amount.kind = "int" \/ CanParseInt(amount.s)
        amt   == IF amount.kind = "int" THEN amount.n
                 ELSE IF amountOk THEN IntOf(amount.s) ELSE 0
        b     == Lower(broker)
        valid == IsDispatchBroker(b)
        calls == IF amountOk /\ valid
                 THEN CallsMade(DispatchTargets(b), raises) ELSE <<>>
        adapterRaised == \E i \in 1..Len(calls) : calls[i] \in raises
        invalid == amountOk /\ ~valid
        \* line 230: ctx.send on None raises inside the try block
        caught == ~amountOk \/ adapterRaised \/ (invalid /\ ctx = "None")
        said == (IF invalid THEN <<MsgInvalidBroker>> ELSE <<>>)
                \o (IF caught THEN <<MsgErrorPlacing>> ELSE <<>>)
    IN  [out |-> said,
         sent |-> IF ctx = "None" THEN <<>> ELSE said,
         calls |-> [i \in 1..Len(calls) |->
                      [adapter |-> calls[i], action |-> Lower(action),
                       stock |-> Upper(stock), amount |-> amt, dry |-> dry]],
         \* line 233: ctx.send on None raises out of the except block
         raised |-> caught /\ ctx = "None",
         market |-> "open"]

\* lines 234-237
PlaceOrderClosed(ctx) ==
    [out |-> <<MsgClosed>>,
     sent |-> IF ctx = "None" THEN <<>> ELSE <<MsgClosed>>,
     calls |-> <<>>, raised |-> FALSE, market |-> "closed"]

\* a place_order whose closed branch falls through into the dispatch
place_order_FallsThrough(action, amount, stock, broker, dry, ctx, now, raises) ==
    IF isMarketHours(now)
    THEN PlaceOrderOpen(action, amount, stock, broker, dry, ctx, raises)
    ELSE [PlaceOrderOpen(action, amount, stock, broker, dry, ctx, raises)
            EXCEPT !.market = "closed"]

place_order(action, amount, stock, broker, dry, ctx, now, raises) ==
    IF isMarketHours(now)
    THEN PlaceOrderOpen(action, amount, stock, broker, dry, ctx, raises)
    ELSE PlaceOrderClosed(ctx)

(***************************************************************************)
(* auto-rsa.py: get_holdings (lines 159-176)                               *)
(***************************************************************************)
\* the if/elif chain of lines 161-173
HoldingsTargets(a) ==
    IF a = s_ally THEN <<"ally">>
    ELSE IF a = s_fidelity THEN <<>>
    ELSE IF a = s_robinhood \/ a = s_rh THEN <<"robinhood">>
    ELSE IF a = s_schwab THEN <<"schwab">>
    ELSE IF a = s_webull \/ a = s_wb THEN <<"webull">>
    ELSE IF a = s_tradier THEN <<"tradier">>
    ELSE <<>>
\* the else of line 174 is taken for every other token, "all" included
IsHoldingsBroker(a) ==
    a \in {s_ally, s_fidelity, s_robinhood, s_rh, s_schwab, s_webull, s_wb,
           s_tradier}

\* exits: sys.exit(1) was called; raised: an Exception left get_holdings
get_holdings(account, ctx, raises) ==
    LET a == Lower(account)
        calls == IF IsHoldingsBroker(a) THEN CallsMade(HoldingsTargets(a), raises)
                 ELSE <<>>
    IN  [out |-> IF IsHoldingsBroker(a) THEN <<>> ELSE <<MsgInvalidBroker>>,
         calls |-> calls,
         exits |-> ~IsHoldingsBroker(a),
         raised |-> \E i \in 1..Len(calls) : calls[i] \in raises]

\* robinhoodAPI.py and schwabAPI.py define their holdings and transaction
\* operations as plain functions of (aggregate, order, loop) that return None:
\* the dispatcher's `await` of them (and its eight-argument transaction call)
\* raises TypeError.  The other adapters are not part of the sources at hand
\* and may return or raise.
SyncAdapters == {"robinhood", "schwab"}
RaiseSets == {r \in SUBSET AdapterSet : SyncAdapters \subseteq r}

\* the request handed to place_order or get_holdings; none yet
NoReq == [kind |-> "none", action |-> <<>>, amount |-> NoAmount, stock |-> <<>>,
          broker |-> <<>>, dry |-> FALSE, ctx |-> "None", market |-> "none"]

(***************************************************************************)
(* auto-rsa.py: the command handlers of the chat bot (lines 262-323)       *)
(***************************************************************************)
MaxHandlers == 2        \* command handlers in flight at the same time

\* A command handler is a coroutine: it runs until an await suspends it, and
\* the event loop then runs the other handlers.  A segment is what a handler
\* does between two suspensions: the transaction and holdings operations it
\* calls, what it prints, what reaches the chat channel, and how it ends
\* ("close" for bot.close(), "exit0" and "exit1" for an exit of the process).
NoSegment == [dispatched |-> <<>>, holdingsCalls |-> <<>>, out |-> <<>>,
              sent |-> <<>>, ends |-> "no"]

\* the awaits of the adapter operations, one after another (lines 161-173
\* and 196-226), recorded in the segment field `field`: an operation of
\* SyncAdapters returns or raises without suspending the handler, any other
\* operation may suspend it while it runs.  cur is the segment so far; the
\* last segment returned is the one the handler resumes in after its last
\* call.
RECURSIVE AwaitSegments(_, _, _, _)
AwaitSegments(calls, adapters, field, cur) ==
    IF calls = <<>> THEN <<cur>>
    ELSE LET nxt == [cur EXCEPT ![field] = @ \o <<Head(calls)>>]
         IN  IF Head(adapters) \in SyncAdapters
             THEN AwaitSegments(Tail(calls), Tail(adapters), field, nxt)
             ELSE <<nxt>> \o AwaitSegments(Tail(calls), Tail(adapters), field,
                                           NoSegment)

\* what follows the awaited operations: the handler prints (lines 228, 232,
\* 236, 310) in the segment it resumed in, and each `await ctx.send(...)`
\* (lines 229, 233, 237, 311) suspends it while the message is sent
HandlerSegments(awaited, said, sends) ==
    [i \in 1..Len(awaited) |->
        IF i = Len(awaited) THEN [awaited[i] EXCEPT !.out = said]
        ELSE awaited[i]]
    \o [i \in 1..Len(sends) |-> [NoSegment EXCEPT !.sent = <<sends[i]>>]]

\* a handler entered: its command, the request it serves, what it has
\* called, printed and sent so far, and the segments it has yet to run
Handler(cmd, r, segments) ==
    [cmd |-> cmd, req |-> r, out |-> <<>>, sent |-> <<>>, dispatched |-> <<>>,
     holdingsCalls |-> <<>>, todo |-> segments]

\* the commands the chat bot is sent; raises is the set of adapters whose
\* operation raises when awaited, now the local time of the market-hours
\* check
RsaCommands == [action : ActionTokens, amount : AmountTokens,
                stock : StockTokens, broker : BrokerTokens, dry : BotDryTokens,
                now : OrderTimes, raises : RaiseSets]
HoldingsCommands == [broker : BrokerTokens, raises : RaiseSets]
\* the commands sent while another handler is in flight
BusyRaiseSets == {SyncAdapters, SyncAdapters \cup {"ally"}}
BusyRsaCommands ==
    [action : {<<"b","u","y">>}, amount : {<<"5">>}, stock : StockTokens,
     broker : {s_ally}, dry : {s_dry}, now : {[h |-> 9, m |-> 31, s |-> 0]},
     raises : BusyRaiseSets]
    \cup [action : {<<"S","e","l","l">>}, amount : {<<"5">>},
          stock : StockTokens, broker : {s_ally}, dry : {<<"n","o">>},
          now : {[h |-> 9, m |-> 31, s |-> 0]}, raises : BusyRaiseSets]
BusyHoldingsCommands ==
    [broker : {s_ally, s_schwab, <<"f","o","o">>}, raises : BusyRaiseSets]

\* lines 284-302: !rsa <action> <amount> <ticker> <broker> <dry>
rsa(c) ==
    LET dry == (Lower(c.dry) = s_dry \/ Lower(c.dry) = s_true)
        r == place_order(c.action, StrAmount(c.amount), c.stock, c.broker,
                         dry, "ctx", c.now, c.raises)
    IN  Handler("rsa",
                [kind |-> "order", action |-> c.action,
                 amount |-> StrAmount(c.amount), stock |-> c.stock,
                 broker |-> c.broker, dry |-> dry, ctx |-> "ctx",
                 market |-> r.market],
                HandlerSegments(
                    AwaitSegments(r.calls,
                                  [i \in 1..Len(r.calls) |-> r.calls[i].adapter],
                                  "dispatched", NoSegment),
                    r.out, r.sent))

\* lines 305-314: !holdings <broker>; sys.exit(1) of get_holdings (line 176)
\* ends the process
holdings(c) ==
    LET r == get_holdings(c.broker, "ctx", c.raises)
        said == IF r.raised THEN <<MsgErrorHoldings>> ELSE <<>>
        segments == HandlerSegments(
                        AwaitSegments(r.calls, r.calls, "holdingsCalls",
                                      NoSegment),
                        r.out \o said, said)
    IN  Handler("holdings",
                [NoReq EXCEPT !.kind = "holdings", !.broker = c.broker,
                              !.ctx = "ctx"],
                IF r.exits THEN [segments EXCEPT ![1].ends = "exit1"]
                ELSE segments)

\* lines 317-323: !restart
restart ==
    Handler("restart", NoReq,
            <<[NoSegment EXCEPT !.out = <<MsgRestart>>],
              [NoSegment EXCEPT !.sent = <<MsgRestart>>],
              [NoSegment EXCEPT !.ends = "close"],
              [NoSegment EXCEPT !.ends = "exit0"]>>)

\* lines 270-273: !ping
ping ==
    Handler("ping", NoReq,
            <<[NoSegment EXCEPT !.out = <<MsgPonged>>],
              [NoSegment EXCEPT !.sent = <<MsgPong>>]>>)

\* the handler after its next segment
Resumed(h) ==
    LET g == Head(h.todo)
    IN  [h EXCEPT !.out = @ \o g.out, !.sent = @ \o g.sent,
                  !.dispatched = @ \o g.dispatched,
                  !.holdingsCalls = @ \o g.holdingsCalls, !.todo = Tail(@)]

(***************************************************************************)
(* The aggregate and the order descriptor (helperAPI: Brokerage,           *)
(* stockOrder), as the adapters use them                                   *)
(***************************************************************************)
MaxAccounts == 2        \* accounts of one identity
MaxStocks   == 2        \* symbols of one order

\* the credential sets of one brokerage, by index: "Schwab 1", "Schwab 2"
Identities == {1, 2}
\* the j-th account identifier of identity k
AccountId(k, j) == <<DigitChars[k + 1], DigitChars[j + 1]>>
AccountsOf(k, n) == [j \in 1..n |-> AccountId(k, j)]
\* aggregates: every identity with zero or more registered accounts
Aggregates == { [k \in Identities |-> AccountsOf(k, cnt[k])] :
                  cnt \in [Identities -> 0..MaxAccounts] }

StockList == <<"AAA", "BBB", "CCC", "DDD">>
StockLists == { SubSeq(StockList, 1, n) : n \in 1..MaxStocks }

s_buy  == <<"b","u","y">>
s_sell == <<"s","e","l","l">>
s_hold == <<"h","o","l","d">>
Orders == [action : {s_buy, s_sell, s_hold}, amount : {1}, stocks : StockLists,
           dry : BOOLEAN]
NoOrder == [action |-> <<>>, amount |-> 0, stocks |-> <<>>, dry |-> TRUE]

\* Brokerage.get_account_numbers(): the identities that have accounts, in the
\* order they were registered
RECURSIVE KeysFrom(_, _)
KeysFrom(agg, k) ==
    IF k \notin DOMAIN agg THEN <<>>
    ELSE (IF agg[k] # <<>> THEN <<k>> ELSE <<>>) \o KeysFrom(agg, k + 1)
get_account_numbers(agg) == KeysFrom(agg, 1)

\* the nested loops `for s in stocks: for key in ...: for account in ...`
ItemsOfKey(s, k, accts) ==
    [i \in 1..Len(accts) |-> [s |-> s, key |-> k, account |-> accts[i]]]
RECURSIVE ItemsOfKeys(_, _, _)
ItemsOfKeys(s, keys, agg) ==
    IF keys = <<>> THEN <<>>
    ELSE ItemsOfKey(s, Head(keys), agg[Head(keys)])
         \o ItemsOfKeys(s, Tail(keys), agg)
RECURSIVE TransactionLoop(_, _)
TransactionLoop(stocks, agg) ==
    IF stocks = <<>> THEN <<>>
    ELSE ItemsOfKeys(Head(stocks), get_account_numbers(agg), agg)
         \o TransactionLoop(Tail(stocks), agg)

(***************************************************************************)
(* schwabAPI.py: schwab_transaction (lines 127-208)                        *)
(***************************************************************************)
\* str.strip() of blanks, str.split(":") and str.capitalize()
RECURSIVE StripLeft(_)
StripLeft(s) == IF s # <<>> /\ Head(s) = " " THEN StripLeft(Tail(s)) ELSE s
RECURSIVE StripRight(_)
StripRight(s) ==
    IF s # <<>> /\ s[Len(s)] = " " THEN StripRight(SubSeq(s, 1, Len(s) - 1)) ELSE s
Strip(s) == StripRight(StripLeft(s))
RECURSIVE SplitFrom(_, _, _)
SplitFrom(s, sep, cur) ==
    IF s = <<>> THEN <<cur>>
    ELSE IF Head(s) = sep THEN <<cur>> \o SplitFrom(Tail(s), sep, <<>>)
    ELSE SplitFrom(Tail(s), sep, Append(cur, Head(s)))
Split(s, sep) == SplitFrom(s, sep, <<>>)
Capitalize(s) ==
    [i \in 1..Len(s) |-> IF i = 1 THEN ToUpperChar(s[i]) ELSE ToLowerChar(s[i])]
InList(x, l) == \E i \in 1..Len(l) : l[i] = x

\* values of SCHWAB_ACCOUNT_NUMBERS: unset or empty, one account, two
\* accounts, a blank-padded account with a trailing colon, a blank
SchwabEnvs == {<<>>, <<" ">>, AccountId(1, 1),
               AccountId(1, 1) \o <<":">> \o AccountId(2, 1),
               <<" ">> \o AccountId(1, 2) \o <<":">>}

\* line 136
purchase_accounts(env) == Split(Strip(env), ":")

\* a transaction that skips no account
SchwabSkips_Never(order, env, account) == FALSE

\* lines 149-153
SchwabSkips(order, env, account) ==
    /\ purchase_accounts(env) # << <<>> >>
    /\ Lower(order.action) # s_sell
    /\ ~InList(account, purchase_accounts(env))

\* the answers of the Schwab session to one iteration: trade_v2 and trade
\* each report success, report failure, or raise
\* (an answer that is never asked for is held at "ok")
SchwabAnswers ==
    {a \in [v2 : {"ok", "fail", "raise"}, retry : {"ok", "fail", "raise"}] :
        a.v2 # "fail" => a.retry = "ok"}

SchwabTrade(api, item, order) ==
    [api |-> api, ticker |-> item.s, side |-> Capitalize(order.action),
     qty |-> order.amount, account |-> item.account, dry_run |-> order.dry,
     submits |-> ~order.dry]

\* a retry that leaves dry_run out, so that the session submits the order
SchwabRetry_Live(item, order) ==
    [SchwabTrade("trade", item, order) EXCEPT !.dry_run = FALSE, !.submits = TRUE]

\* lines 182-188: the secondary trade call
SchwabRetry(item, order) == SchwabTrade("trade", item, order)

\* a retry after every primary call that returned
SchwabRetries_Always(ans) == TRUE

\* line 181: `if not success`
SchwabRetries(ans) == ans.v2 = "fail"

\* lines 146-208: one pass of the innermost loop; raised is TRUE when an
\* exception leaves the operation
SchwabIteration(item, order, env, ans) ==
    [raised |-> FALSE] @@
    IF SchwabSkips(order, env, item.account)
    THEN [calls |-> <<>>, out |-> <<"skipping">>]
    ELSE
        LET first == SchwabTrade("trade_v2", item, order)
            retry == SchwabRetry(item, order)
            dryNote == IF order.dry THEN <<"DRY mode">> ELSE <<>>
        IN  IF ans.v2 = "raise"
            THEN [calls |-> <<first>>,
                  out |-> dryNote \o <<"Error submitting order">>]
            ELSE IF ~SchwabRetries(ans)
            THEN [calls |-> <<first>>, out |-> dryNote \o <<"successful">>]
            ELSE IF ans.retry = "raise"
            THEN [calls |-> <<first, retry>>,
                  out |-> dryNote \o <<"unsuccessful, retrying...",
                                       "Error submitting order">>]
            ELSE [calls |-> <<first, retry>>,
                  out |-> dryNote \o <<"unsuccessful, retrying...",
                                       IF ans.retry = "ok" THEN "retry successful"
                                       ELSE "retry unsuccessful", "messages">>]

(***************************************************************************)
(* robinhoodAPI.py: robinhood_transaction (lines 183-276)                  *)
(***************************************************************************)
\* prices in cents; 0 stands for None
PriceCents == {0, 100, 105}
\* the answers of robin_stocks to one iteration: the login from the cached
\* session returns or raises; the market order and the limit order each
\* return an order, return None, or raise
\* (an answer that is never asked for is held at a default)
RobinhoodAnswers ==
    {a \in [relogin : {"ok", "raise"}, market : {"order", "none", "raise"},
            ask : PriceCents, bid : PriceCents,
            limit : {"order", "none", "raise"}] :
        /\ a.relogin = "raise" => a.market = "order"
        /\ a.market # "none" => (a.ask = 0 /\ a.bid = 0)
        /\ (a.ask = 0 \/ a.bid = 0) => a.limit = "order"}

RobinhoodOrder(kind, item, order, price) ==
    [api |-> "order", kind |-> kind, ticker |-> item.s, side |-> order.action,
     qty |-> order.amount, account |-> item.account, limitPrice |-> price,
     dry_run |-> FALSE, submits |-> TRUE]

\* a limit price that takes the ask whatever the bid is
RobinhoodLimitPrice_AskOnly(order, ask, bid) ==
    IF order.action = s_buy THEN ask + 1 ELSE ask - 1

\* lines 221-234
RobinhoodLimitPrice(order, ask, bid) ==
    IF order.action = s_buy
    THEN (IF ask > bid THEN ask ELSE bid) + 1
    ELSE (IF ask < bid THEN ask ELSE bid) - 1

\* lines 196-276: one pass of the innermost loop; login_with_cache (line
\* 198) is called outside the try block, so what it raises leaves the
\* operation
RobinhoodIteration(item, order, ans) ==
    IF ans.relogin = "raise"
    THEN [calls |-> <<>>, out |-> <<>>, raised |-> TRUE]
    ELSE [raised |-> FALSE] @@
    IF ~order.dry
    THEN
        LET market == RobinhoodOrder("market", item, order, 0)
            price == RobinhoodLimitPrice(order, ans.ask, ans.bid)
            limit == RobinhoodOrder("limit", item, order, price)
        IN  IF ans.market = "raise"
            THEN [calls |-> <<market>>, out |-> <<"Error submitting order">>]
            ELSE IF ans.market = "order"
            THEN [calls |-> <<market>>, out |-> <<"Success">>]
            ELSE IF ans.ask = 0 \/ ans.bid = 0
            THEN [calls |-> <<market>>,
                  out |-> <<"trying Limit Order", "Error getting price">>]
            ELSE IF ans.limit = "raise"
            THEN [calls |-> <<market, limit>>,
                  out |-> <<"trying Limit Order", "Error submitting order">>]
            ELSE IF ans.limit = "none"
            THEN [calls |-> <<market, limit>>,
                  out |-> <<"trying Limit Order", "Error">>]
            ELSE [calls |-> <<market, limit>>,
                  out |-> <<"trying Limit Order", "Success">>]
    ELSE [calls |-> <<>>, out |-> <<"Running in DRY mode">>]

(***************************************************************************)
(* fennelAPI.py: Fennel.place_order (lines 302-344) and fennel_transaction *)
(* (lines 470-508)                                                         *)
(***************************************************************************)
\* the answers of the Fennel service to one place_order: each request is
\* answered or fails (a status other than 200); the search and the holdings
\* may know the ticker's ISIN or not
\* (an answer that is never asked for is held at a default)
FennelAnswers ==
    {a \in [market : {"open", "closed", "fail"},
            search : {"isin", "none", "fail"},
            holdings : {"isin", "none", "fail"},
            tradable : {"yes", "no", "fail"},
            create : {"pending", "rejected", "fail"}] :
        /\ a.market # "open" => a.search = "isin"
        /\ a.search # "none" => a.holdings = "isin"
        /\ (a.search = "fail" \/ a.holdings # "isin") => a.tradable = "yes"
        /\ a.tradable # "yes" => a.create = "pending"}

FennelRequest(name, dry) ==
    [api |-> name, dry_run |-> dry, submits |-> name = "createOrder"]

\* a place_order that sends the order without asking whether the stock is
\* tradable
FennelPlaceOrder_Untested(bearer, side, dry_run, ans) ==
    LET q(n) == FennelRequest(n, dry_run)
    IN  IF ~bearer \/ Lower(side) \notin {s_buy, s_sell}
        THEN [calls |-> <<>>, result |-> "raise"]
        ELSE IF ans.market # "open" \/ ans.search # "isin"
        THEN [calls |-> <<q("isMarketOpen")>>, result |-> "raise"]
        ELSE IF dry_run
        THEN [calls |-> <<q("isMarketOpen"), q("searchSecurities")>>,
              result |-> "dry_run_success"]
        ELSE [calls |-> <<q("isMarketOpen"), q("searchSecurities"),
                          q("createOrder")>>,
              result |-> IF ans.create = "fail" THEN "raise" ELSE ans.create]

\* the requests place_order sends, in order, and how it ends: "raise", the
\* simulated result "dry_run_success", or the service's answer
FennelPlaceOrder(bearer, side, dry_run, ans) ==
    LET q(n) == FennelRequest(n, dry_run)
        fromHoldings == ans.search = "none" /\ Lower(side) = s_sell
        found == \/ ans.search = "isin"
                 \/ (fromHoldings /\ ans.holdings = "isin")
        lookups == <<q("searchSecurities")>>
                   \o (IF fromHoldings THEN <<q("stockHoldings")>> ELSE <<>>)
    IN  IF ~bearer THEN [calls |-> <<>>, result |-> "raise"]           \* check_login
        ELSE IF Lower(side) \notin {s_buy, s_sell}
        THEN [calls |-> <<>>, result |-> "raise"]
        ELSE IF ans.market # "open"
        THEN [calls |-> <<q("isMarketOpen")>>, result |-> "raise"]
        ELSE IF ans.search = "fail"
        THEN [calls |-> <<q("isMarketOpen"), q("searchSecurities")>>,
              result |-> "raise"]
        ELSE IF ~found
        THEN [calls |-> <<q("isMarketOpen")>> \o lookups, result |-> "raise"]
        ELSE IF ans.tradable # "yes"
        THEN [calls |-> <<q("isMarketOpen")>> \o lookups \o <<q("isTradable")>>,
              result |-> "raise"]
        ELSE IF dry_run
        THEN [calls |-> <<q("isMarketOpen")>> \o lookups \o <<q("isTradable")>>,
              result |-> "dry_run_success"]
        ELSE [calls |-> <<q("isMarketOpen")>> \o lookups
                        \o <<q("isTradable"), q("createOrder")>>,
              result |-> IF ans.create = "fail" THEN "raise" ELSE ans.create]

\* lines 482-508: one pass of the innermost loop
FennelIteration(item, order, ans) ==
    LET r == FennelPlaceOrder(TRUE, order.action, order.dry, ans)
    IN  [raised |-> FALSE,
         calls |-> r.calls,
         out |-> IF r.result = "raise" THEN <<"Error placing order">>
                 ELSE IF order.dry
                 THEN (IF r.result = "dry_run_success" THEN <<"Dry Run Success">>
                       ELSE <<"Dry Run Failed">>)
                 ELSE IF r.result = "pending" THEN <<"Success">>
                 ELSE <<"createOrder rejected">>]

(***************************************************************************)
(* Holdings: schwab_holdings (schwabAPI.py 103-124), robinhood_holdings    *)
(* (robinhoodAPI.py 154-180), fennel_holdings (fennelAPI.py 446-467)       *)
(***************************************************************************)
MaxPositions == 2       \* positions one account reports

\* float(str) for the quantities a brokerage reports, in tenths: digits with
\* at most one decimal digit
CanParseFloat(s) ==
    \/ AllDigits(s)
    \/ /\ Len(s) >= 3 /\ s[Len(s) - 1] = "."
       /\ AllDigits(SubSeq(s, 1, Len(s) - 2)) /\ IsDigit(s[Len(s)])
FloatTenths(s) ==
    IF AllDigits(s) THEN 10 * DigitsValue(s)
    ELSE 10 * DigitsValue(SubSeq(s, 1, Len(s) - 2)) + DigitVal(s[Len(s)])

\* Python floats are IEEE-754 doubles: 53 significant bits, every operation
\* rounded to the nearest double, ties to the even significand.  A natural
\* number of that size is kept in limbs of 15 bits, least significant first,
\* so that no intermediate product leaves the 32-bit integers.
LimbBase == 2 ^ 15
RECURSIVE LimbsOf(_)
LimbsOf(n) == IF n = 0 THEN <<>> ELSE <<n % LimbBase>> \o LimbsOf(n \div LimbBase)
RECURSIVE LimbsNorm(_)
LimbsNorm(x) ==
    IF x # <<>> /\ x[Len(x)] = 0 THEN LimbsNorm(SubSeq(x, 1, Len(x) - 1)) ELSE x
\* x * k + carry, for k below 2^15
RECURSIVE LimbsTimes(_, _, _)
LimbsTimes(x, k, carry) ==
    IF x = <<>> THEN LimbsOf(carry)
    ELSE LET v == Head(x) * k + carry
         IN  <<v % LimbBase>> \o LimbsTimes(Tail(x), k, v \div LimbBase)
\* quotient and remainder of (r * LimbBase^Len(x) + x) by d, for d below 2^15
RECURSIVE LimbsDiv(_, _, _)
LimbsDiv(x, d, r) ==
    IF x = <<>> THEN [q |-> <<>>, r |-> r]
    ELSE LET v == r * LimbBase + x[Len(x)]
             rest == LimbsDiv(SubSeq(x, 1, Len(x) - 1), d, v % d)
         IN  [q |-> rest.q \o <<v \div d>>, r |-> rest.r]
LimbsShl(x, s) ==
    LimbsNorm([i \in 1..(s \div 15) |-> 0] \o LimbsTimes(x, 2 ^ (s % 15), 0))
RECURSIVE LimbsAdd(_, _, _)
LimbsAdd(x, y, carry) ==
    IF x = <<>> /\ y = <<>> THEN LimbsOf(carry)
    ELSE LET v == (IF x = <<>> THEN 0 ELSE Head(x))
                  + (IF y = <<>> THEN 0 ELSE Head(y)) + carry
         IN  <<v % LimbBase>>
             \o LimbsAdd(IF x = <<>> THEN x ELSE Tail(x),
                         IF y = <<>> THEN y ELSE Tail(y), v \div LimbBase)
\* x - 1, for x above 0
RECURSIVE LimbsPred(_)
LimbsPred(x) ==
    IF Head(x) > 0 THEN LimbsNorm(<<Head(x) - 1>> \o Tail(x))
    ELSE <<LimbBase - 1>> \o LimbsPred(Tail(x))
RECURSIVE LimbsMul(_, _)
LimbsMul(x, y) ==
    IF y = <<>> THEN <<>>
    ELSE LimbsNorm(LimbsAdd(LimbsTimes(x, Head(y), 0),
                            <<0>> \o LimbsMul(x, Tail(y)), 0))
\* -1, 0 or 1 as x is below, equal to or above y
RECURSIVE LimbsCmp(_, _)
LimbsCmp(x, y) ==
    IF Len(x) # Len(y) THEN (IF Len(x) < Len(y) THEN -1 ELSE 1)
    ELSE IF x = <<>> THEN 0
    ELSE IF x[Len(x)] # y[Len(y)] THEN (IF x[Len(x)] < y[Len(y)] THEN -1 ELSE 1)
    ELSE LimbsCmp(SubSeq(x, 1, Len(x) - 1), SubSeq(y, 1, Len(y) - 1))
RECURSIVE BitLength(_)
BitLength(n) == IF n = 0 THEN 0 ELSE 1 + BitLength(n \div 2)
LimbsOdd(x) == x # <<>> /\ Head(x) % 2 = 1

\* the rational n / d between two doubles: m is the 53-bit significand of
\* the double at or below it, m * 2^-s that double, and r the remainder of
\* n * 2^s by d
FloatBelow(n, d) ==
    LET bits == [k \in {n, d} |-> BitLength(k)]
        \* n / d lies in [2^(bits[n] - bits[d]), 2^(bits[n] - bits[d] + 1))
        \* or in the binade below
        high == IF bits[n] > bits[d] THEN n >= d * 2 ^ (bits[n] - bits[d])
                ELSE n * 2 ^ (bits[d] - bits[n]) >= d
        s == 53 + bits[d] - bits[n] - (IF high THEN 1 ELSE 0)
        q == LimbsDiv(LimbsShl(LimbsOf(n), s), d, 0)
    IN  [m |-> LimbsNorm(q.q), r |-> q.r, s |-> s]
\* float("n/d"): the double nearest to n / d, as m * 2^-s
Float(n, d) ==
    LET f == FloatBelow(n, d)
        up == 2 * f.r > d \/ (2 * f.r = d /\ LimbsOdd(f.m))
    IN  [m |-> LimbsAdd(f.m, <<>>, IF up THEN 1 ELSE 0), s |-> f.s]
\* the exact quotient of the doubles x and y against the rational
\* m * 2^-s: -1, 0 or 1 as it is below, equal to or above it
FloatQuotientCmp(x, y, m, s) ==
    LET e == s + y.s - x.s
        side == <<[m |-> x.m, s |-> IF e > 0 THEN e ELSE 0],
                  [m |-> LimbsMul(m, y.m), s |-> IF e < 0 THEN 0 - e ELSE 0]>>
        shifted == [k \in {1, 2} |-> LimbsShl(side[k].m, side[k].s)]
    IN  LimbsCmp(shifted[1], shifted[2])

\* round() of the double mv / qty when the exact quotient of the decimals is
\* the tie (2 q + 1) / 200: t is FloatBelow of the tie, mv and qty the
\* doubles divided.  The midpoints between the double t.m * 2^-t.s and the
\* doubles next to it are (2 m + 1) * 2^-(s + 1) above and
\* (2 m - 1) * 2^-(s + 1) below; below 2^52 the doubles are half as far
\* apart.  The double nearest to mv / qty is above the tie when the quotient
\* is above the upper midpoint (or on it, the even significand winning),
\* below the tie when the tie is no double or the quotient is below the
\* lower midpoint, and else it is the tie, which goes to the even cent.
RoundTie(q, t, mv, qty) ==
    LET half == t.m = <<0, 0, 0, 128>>
        upper == FloatQuotientCmp(mv, qty, LimbsTimes(t.m, 2, 1), t.s + 1)
        lower == FloatQuotientCmp(mv, qty,
                                  LimbsTimes(LimbsPred(t.m),
                                             IF half THEN 4 ELSE 2,
                                             IF half THEN 3 ELSE 1),
                                  t.s + (IF half THEN 2 ELSE 1))
    IN  IF upper > 0 \/ (upper = 0 /\ LimbsOdd(t.m)) THEN q + 1
        ELSE IF t.r # 0 \/ lower < 0 \/ (lower = 0 /\ LimbsOdd(t.m)) THEN q
        ELSE IF q % 2 = 0 THEN q ELSE q + 1

\* schwabAPI.py 119, round(mv / qty, 2) in cents: a is ten times the market
\* value in cents and b the quantity in tenths.  A quotient that is no
\* decimal tie rounds to the nearest cent: the error of the division is far
\* smaller than its distance to the tie.  A decimal tie is seldom a double:
\* the double mv / qty lies above it or below it, and round() rounds the
\* double it is given.
RoundDiv(a, b) ==
    LET q == a \div b
        r == a % b
    IN  IF 2 * r < b THEN q
        ELSE IF 2 * r > b THEN q + 1
        ELSE RoundTie(q, FloatBelow(2 * q + 1, 200), Float(a, 1000),
                      Float(b, 10))

QtyTokens == {<<"0">>, <<"0",".","0">>, <<"2",".","0">>, <<"x">>}
\* a reported position: its quantity as the brokerage writes it, its market
\* value in cents, and the latest price in cents (0 for None)
Positions == [symbol : {"AAA"}, quantity : QtyTokens, market_value : {535},
              price : {0, 105}]
PositionLists == UNION { [1..n -> Positions] : n \in 0..MaxPositions }

\* set_holdings(key, account, sym, qty, price); zero is TRUE when the
\* quantity recorded is 0
Holding(item, sym, qty, zero, price) ==
    [key |-> item.key, account |-> item.account, sym |-> sym, qty |-> qty,
     zero |-> zero, price |-> price]

\* schwabAPI.py 114-120: a quantity of 0 gets the price 0 and is recorded
RECURSIVE SchwabRecord(_, _)
SchwabRecord(item, positions) ==
    IF positions = <<>> THEN [recorded |-> <<>>, failed |-> FALSE]
    ELSE
        LET p == Head(positions)
        IN  IF ~CanParseFloat(p.quantity)
            THEN [recorded |-> <<>>, failed |-> TRUE]
            ELSE
                LET qty == FloatTenths(p.quantity)
                    current_price == IF qty = 0 THEN 0
                                     ELSE RoundDiv(10 * p.market_value, qty)
                    rest == SchwabRecord(item, Tail(positions))
                IN  [recorded |-> <<Holding(item, p.symbol, qty, qty = 0,
                                            current_price)>> \o rest.recorded,
                     failed |-> rest.failed]

\* robinhoodAPI.py 164-175
RECURSIVE RobinhoodRecord(_, _)
RobinhoodRecord(item, positions) ==
    IF positions = <<>> THEN [recorded |-> <<>>, failed |-> FALSE]
    ELSE
        LET p == Head(positions)
        IN  IF ~CanParseFloat(p.quantity)
            THEN [recorded |-> <<>>, failed |-> TRUE]
            ELSE
                LET qty == FloatTenths(p.quantity)
                    \* float(None) raises the TypeError that names NoneType
                    current_price == IF p.price = 0 THEN -1 ELSE p.price
                    rest == RobinhoodRecord(item, Tail(positions))
                IN  [recorded |-> <<Holding(item, p.symbol, qty, qty = 0,
                                            current_price)>> \o rest.recorded,
                     failed |-> rest.failed]

\* fennelAPI.py 454-462: the quantity is recorded as reported
RECURSIVE FennelRecord(_, _)
FennelRecord(item, positions) ==
    IF positions = <<>> THEN [recorded |-> <<>>, failed |-> FALSE]
    ELSE
        LET p == Head(positions)
        IN  IF ~CanParseFloat(p.quantity)
            THEN [recorded |-> <<>>, failed |-> TRUE]
            ELSE
                LET rest == FennelRecord(item, Tail(positions))
                    cp == IF p.price = 0 THEN -1 ELSE p.price
                IN  IF FloatTenths(p.quantity) = 0 THEN rest
                    ELSE [recorded |-> <<Holding(item, p.symbol, p.quantity,
                                                 FALSE, cp)>> \o rest.recorded,
                          failed |-> rest.failed]

\* the answers of the brokerage to one pass of the account loop: the login
\* from the cached session (Robinhood) returns or raises, the request for
\* the positions returns or raises, and the positions it returns.  Schwab
\* asks for the positions of all accounts of an identity at once, before
\* the identity's first account (first).  An answer that is never asked for
\* is held at a default.
HoldingsAnswers(adapter, first) ==
    {a \in [relogin : {"ok", "raise"}, fetch : {"ok", "raise"},
            positions : PositionLists] :
        /\ adapter # "robinhood" => a.relogin = "ok"
        /\ (adapter = "schwab" /\ ~first) => a.fetch = "ok"
        /\ a.relogin = "raise" => a.fetch = "ok"
        /\ (a.relogin = "raise" \/ a.fetch = "raise") => a.positions = <<>>}

\* the exceptions that no try block of the holdings operation encloses:
\* login_with_cache (robinhoodAPI.py 159) and get_account_info_v2
\* (schwabAPI.py 109)
HoldingsEscapes(adapter, ans) ==
    \/ adapter = "robinhood" /\ ans.relogin = "raise"
    \/ adapter = "schwab" /\ ans.fetch = "raise"

\* one pass of the account loop: what was recorded before a position failed
\* to convert stays recorded, and the failure is reported; raised is TRUE
\* when an exception leaves the operation
HoldingsIteration(adapter, item, ans) ==
    LET r == CASE adapter = "schwab" -> SchwabRecord(item, ans.positions)
               [] adapter = "robinhood" -> RobinhoodRecord(item, ans.positions)
               [] OTHER -> FennelRecord(item, ans.positions)
    IN  IF HoldingsEscapes(adapter, ans)
        THEN [recorded |-> <<>>, out |-> <<>>, raised |-> TRUE]
        ELSE IF ans.fetch = "raise"
        THEN [recorded |-> <<>>, out |-> <<"Error getting holdings">>,
              raised |-> FALSE]
        ELSE [recorded |-> r.recorded,
              out |-> IF r.failed THEN <<"Error getting holdings">> ELSE <<>>,
              raised |-> FALSE]

\* the nested loops `for key in ...: for account in ...`
HoldingsLoop(agg) == ItemsOfKeys("", get_account_numbers(agg), agg)

(***************************************************************************)
(* Init: schwab_init (schwabAPI.py 22-100), robinhood_init                 *)
(* (robinhoodAPI.py 37-151), fennel_init (fennelAPI.py 368-443)            *)
(***************************************************************************)
MaxCreds == 2           \* credential sets of one brokerage

\* credential tuples: with "NA" for the two-factor secret, with a secret,
\* and with no third field
CredTokens == {<<"a",":","p",":","N","A">>, <<"b",":","p",":","T">>,
               <<"c",":","p">>}
CredLists == UNION { [1..n -> CredTokens] : n \in 1..MaxCreds }

\* list.index(x) + 1: the position of the first equal element
FirstIndex(l, x) == CHOOSE i \in 1..Len(l) : l[i] = x /\ \A j \in 1..(i - 1) : l[j] # x

\* Brokerage (helperAPI): the identities with a session handle, the account
\* identifiers of each identity, and the account sub-handles
EmptyAggregate == [objs |-> {}, accts |-> [k \in 1..MaxCreds |-> <<>>],
                   subs |-> {}]
set_logged_in_object(agg, name) == [agg EXCEPT !.objs = @ \cup {name}]
set_account_number(agg, name, account) ==
    IF InList(account, agg.accts[name]) THEN agg
    ELSE [agg EXCEPT !.accts[name] = Append(@, account)]
set_account_handle(agg, name, account) ==
    [agg EXCEPT !.subs = @ \cup {<<name, account>>}]

RECURSIVE RegisterAccounts(_, _, _)
RegisterAccounts(agg, name, accts) ==
    IF accts = <<>> THEN agg
    ELSE RegisterAccounts(set_account_number(agg, name, Head(accts)), name,
                          Tail(accts))

\* the answers of the Schwab session to one credential set: login returns
\* True or False or raises; get_account_info_v2 raises (-1) or lists accounts
\* (an answer that is never asked for is held at a default)
SchwabLoginAnswers ==
    {a \in [login : {"ok", "false", "raise"}, info : -1..MaxAccounts] :
        a.login = "raise" => a.info = 0}

\* schwabAPI.py 52-99: one credential set; returns is TRUE when the except
\* block of line 96 ends the whole init with `return None`
SchwabLogin(agg, creds, i, ans) ==
    LET name == FirstIndex(creds, creds[i])
        parts == Split(creds[i], ":")
    IN  IF Len(parts) < 3 \/ ans.login = "raise" \/ ans.info = -1
        THEN [agg |-> agg, registered |-> FALSE, returns |-> TRUE]
        ELSE [agg |-> RegisterAccounts(set_logged_in_object(agg, name), name,
                                       AccountsOf(name, ans.info)),
              registered |-> TRUE, returns |-> FALSE]

\* the answers of robin_stocks to one credential set: login returns data
\* with an access token, data without one, nothing, or raises;
\* load_account_profile raises (-1) or lists accounts
\* (an answer that is never asked for is held at a default)
RobinhoodLoginAnswers ==
    {a \in [login : {"token", "no_token", "none", "raise"},
            profile : -1..MaxAccounts] :
        a.login # "token" => a.profile = 0}

\* robinhoodAPI.py 74-150: one credential set; every failure continues
RobinhoodLogin(agg, creds, i, ans) ==
    LET name == FirstIndex(creds, creds[i])
        parts == Split(creds[i], ":")
    IN  IF Len(parts) < 2 \/ ans.login # "token"
        THEN [agg |-> agg, registered |-> FALSE, returns |-> FALSE]
        ELSE IF ans.profile = -1
        THEN [agg |-> set_logged_in_object(agg, name), registered |-> TRUE,
              returns |-> FALSE]
        ELSE [agg |-> RegisterAccounts(set_logged_in_object(agg, name), name,
                                       AccountsOf(name, ans.profile)),
              registered |-> TRUE, returns |-> FALSE]

\* the answers to one Fennel credential set: the cached session verifies or
\* not, the passwordless start and the code exchange succeed or fail, a code
\* arrives or not, get_account_ids raises (-1) or lists accounts, and the
\* registration of account failAt (0: none) fails at the portfolio summary
\* or at the cash total
\* (an answer that is never asked for is held at a default)
FennelLoginAnswers ==
    {a \in [cached : BOOLEAN, start : {"ok", "fail"},
            code : {"code", "none"}, exchange : {"ok", "fail"},
            ids : -1..MaxAccounts, failAt : 0..MaxAccounts,
            failKind : {"summary", "totals"}] :
        /\ a.cached => (a.start = "ok" /\ a.code = "code" /\ a.exchange = "ok")
        /\ a.start = "fail" => (a.code = "code" /\ a.exchange = "ok")
        /\ a.code = "none" => a.exchange = "ok"
        /\ (~a.cached /\ (a.start = "fail" \/ a.exchange = "fail")) => a.ids = 0
        /\ a.failAt <= (IF a.ids < 0 THEN 0 ELSE a.ids)
        /\ a.failAt = 0 => a.failKind = "summary"}

\* a login that goes on to the code exchange without a code
FennelLoginSucceeds_WithoutCode(unattended, ans) ==
    \/ ans.cached
    \/ (ans.start = "ok" /\ ans.exchange = "ok")

\* fennelAPI.py 75-119 and 385-404: Fennel.login as fennel_init drives it,
\* from the command line (the code is typed in) or from the chat bot (the
\* code is asked for over the channel, get_otp_and_login 347-365)
FennelLoginSucceeds(unattended, ans) ==
    \/ ans.cached
    \/ /\ ans.start = "ok"
       /\ (unattended => ans.code = "code")
       /\ ans.exchange = "ok"

\* fennelAPI.py 419-431: the accounts 1..n, stopping at the one that fails
RECURSIVE FennelRegister(_, _, _, _, _)
FennelRegister(agg, name, j, n, ans) ==
    IF j > n THEN agg
    ELSE IF ans.failAt = j /\ ans.failKind = "summary" THEN agg
    ELSE IF ans.failAt = j
    THEN set_account_number(agg, name, AccountId(name, j))
    ELSE FennelRegister(
             set_account_handle(set_account_number(agg, name, AccountId(name, j)),
                                name, AccountId(name, j)),
             name, j + 1, n, ans)

\* a fennel_init that registers the session handle after the accounts
FennelLogin_HandleLast(agg, i, unattended, ans) ==
    IF ~FennelLoginSucceeds(unattended, ans) \/ ans.ids = -1
    THEN [agg |-> agg, registered |-> FALSE, returns |-> FALSE]
    ELSE [agg |-> IF ans.failAt \in 1..ans.ids
                  THEN FennelRegister(agg, i, 1, ans.ids, ans)
                  ELSE set_logged_in_object(
                           FennelRegister(agg, i, 1, ans.ids, ans), i),
          registered |-> TRUE, returns |-> FALSE]

\* fennelAPI.py 380-441: one credential set
FennelLogin(agg, i, unattended, ans) ==
    IF ~FennelLoginSucceeds(unattended, ans) \/ ans.ids = -1
    THEN [agg |-> agg, registered |-> FALSE, returns |-> FALSE]
    ELSE [agg |-> FennelRegister(set_logged_in_object(agg, i), i, 1, ans.ids, ans),
          registered |-> TRUE, returns |-> FALSE]

(***************************************************************************)
(* fennelAPI.py: the Fennel session and its credential cache (lines 23-155)*)
(***************************************************************************)
MaxTokens == 3          \* token sets the service issues in one run

\* a token is None (0) or the k-th token the service issued
NoFile == [exists |-> FALSE, Bearer |-> 0, Refresh |-> 0, ID_Token |-> 0]
\* the credential cache files a run may find: none, or one pickled with any
\* of its tokens None
CacheFiles ==
    {NoFile} \cup [exists : {TRUE}, Bearer : {0, 1}, Refresh : {0, 1},
                   ID_Token : {0, 1}]

\* lines 24-50: __init__ and _load_credentials
FennelNew(file) ==
    [Bearer |-> IF file.exists THEN file.Bearer ELSE 0,
     Refresh |-> IF file.exists THEN file.Refresh ELSE 0,
     ID_Token |-> IF file.exists THEN file.ID_Token ELSE 0,
     file |-> file]

\* lines 52-64
save_credentials(s) ==
    [s EXCEPT !.file = [exists |-> TRUE, Bearer |-> s.Bearer,
                        Refresh |-> s.Refresh, ID_Token |-> s.ID_Token]]

\* a _clear_credentials that removes the file and keeps the tokens in memory
clear_credentials_FileOnly(s) == [s EXCEPT !.file = NoFile]

\* lines 66-73
clear_credentials(s) ==
    [s EXCEPT !.file = NoFile, !.Bearer = 0, !.Refresh = 0, !.ID_Token = 0]

\* a request sent to the service, and the Bearer its headers carry (0 for
\* the requests of the login, which carry none)
Req(name, bearer) == [name |-> name, bearer |-> bearer]

\* a decorator that lets every call through
check_login_Skipped(s) == TRUE

\* lines 15-20: the decorator check_login lets the call through
check_login(s) == s.Bearer # 0

\* lines 157-183: get_account_ids under check_login; a is the service's
\* answer, "ok" or "fail"
get_account_ids_reqs(s) ==
    IF check_login(s) THEN <<Req("account_ids", s.Bearer)>> ELSE <<>>
get_account_ids_returns(s, a) == check_login(s) /\ a = "ok"

\* the operations of the client under check_login that send one request
\* (lines 185-299), and the request each sends
AuthenticatedOps ==
    {"get_account_ids", "get_portfolio_summary", "get_stock_quote",
     "get_stock_price", "get_stock_holdings", "is_market_open",
     "get_stock_isin", "is_stock_tradable", "get_stock_info_from_holdings"}
RequestOf(op) ==
    CASE op = "get_account_ids" -> "account_ids"
      [] op = "get_portfolio_summary" -> "portfolio"
      [] op \in {"get_stock_quote", "get_stock_price", "get_stock_isin"}
            -> "searchSecurities"
      [] op \in {"get_stock_holdings", "get_stock_info_from_holdings"}
            -> "stockHoldings"
      [] op = "is_market_open" -> "isMarketOpen"
      [] op = "is_stock_tradable" -> "isTradable"
authenticated(s, op, a) ==
    IF ~check_login(s) THEN [reqs |-> <<>>, ret |-> "raise"]
    ELSE [reqs |-> <<Req(RequestOf(op), s.Bearer)>>,
          ret |-> IF a = "ok" THEN "returned" ELSE "raise"]

\* lines 121-140; a is the service's answer: "ok" with the token set tok,
\* "null" with a null access token in it, "partial" with an access token
\* and no refresh token (the KeyError of line 137), or "fail" (a status
\* other than 200)
refresh_token(s, a, tok) ==
    [reqs |-> <<Req("refresh", 0)>>] @@
    IF a = "fail" THEN [s |-> s, raised |-> TRUE]
    ELSE IF a = "partial" THEN [s |-> [s EXCEPT !.Bearer = tok], raised |-> TRUE]
    ELSE [s |-> save_credentials(
                    [s EXCEPT !.Bearer = IF a = "null" THEN 0 ELSE tok,
                              !.Refresh = tok, !.ID_Token = tok]),
          raised |-> FALSE]

\* the answers of the service to one _verify_login
VerifyAnswers ==
    {a \in [ids : {"ok", "fail"},
            refresh : {"ok", "null", "partial", "fail"},
            ids2 : {"ok", "fail"}] :
        /\ a.ids = "ok" => a.refresh = "ok"
        /\ a.refresh # "ok" => a.ids2 = "ok"}

\* lines 142-155
verify_login(s, ans, tok) ==
    IF get_account_ids_returns(s, ans.ids)
    THEN [s |-> s, ret |-> TRUE, reqs |-> get_account_ids_reqs(s)]
    ELSE
        LET r == refresh_token(s, ans.refresh, tok)
            reqs == get_account_ids_reqs(s) \o r.reqs
                    \o (IF r.raised THEN <<>> ELSE get_account_ids_reqs(r.s))
        IN  IF ~r.raised /\ get_account_ids_returns(r.s, ans.ids2)
            THEN [s |-> r.s, ret |-> TRUE, reqs |-> reqs]
            ELSE [s |-> clear_credentials(r.s), ret |-> FALSE, reqs |-> reqs]

\* the answers of the service to one login: those of _verify_login, the
\* passwordless start, the code exchange, and the refresh and the account
\* request that follow it
FennelSessionAnswers ==
    {a \in [verify : VerifyAnswers, start : {"ok", "fail"},
            exchange : {"ok", "fail"},
            refresh : {"ok", "null", "partial", "fail"},
            ids : {"ok", "fail"}] :
        /\ a.start = "fail" => a.exchange = "ok"
        /\ (a.start = "fail" \/ a.exchange = "fail") => a.refresh = "ok"
        /\ a.refresh # "ok" => a.ids = "ok"}

\* a login that never looks at the Bearer it holds
HasBearer_Never(s) == FALSE

\* line 77: `self.Bearer is not None`
HasBearer(s) == s.Bearer # 0

\* lines 75-119, with the code typed in (wait_for_code) or not, or handed
\* in (code); ret is "True" or "raise", prompted tells that input() asked
\* for the code
login(s, wait_for_code, code, ans, tok) ==
    LET v == IF HasBearer(s) THEN verify_login(s, ans.verify, tok)
             ELSE [s |-> s, ret |-> FALSE, reqs |-> <<>>]
        start == IF code THEN <<>> ELSE <<Req("start", 0)>>
        x == [v.s EXCEPT !.Bearer = tok + 1, !.Refresh = tok + 1,
                         !.ID_Token = tok + 1]
        r == refresh_token(x, ans.refresh, tok + 2)
        upToExchange == v.reqs \o start \o <<Req("exchange", 0)>>
    IN  IF v.ret
        THEN [s |-> v.s, ret |-> "True", reqs |-> v.reqs, prompted |-> FALSE]
        ELSE IF ~code /\ (ans.start = "fail" \/ ~wait_for_code)
        THEN [s |-> v.s, ret |-> "raise", reqs |-> v.reqs \o start,
              prompted |-> FALSE]
        ELSE IF ans.exchange = "fail"
        THEN [s |-> v.s, ret |-> "raise", reqs |-> upToExchange,
              prompted |-> ~code]
        ELSE IF r.raised
        THEN [s |-> r.s, ret |-> "raise", reqs |-> upToExchange \o r.reqs,
              prompted |-> ~code]
        ELSE [s |-> r.s,
              ret |-> IF get_account_ids_returns(r.s, ans.ids) THEN "True"
                      ELSE "raise",
              reqs |-> upToExchange \o r.reqs \o get_account_ids_reqs(r.s),
              prompted |-> ~code]

VARIABLES
    \* ---- dispatcher (auto-rsa.py) ----
    argv,                \* sys.argv; argv[i + 1] is Python's sys.argv[i]
    DISCORD_TOKEN,       \* os.getenv("DISCORD_TOKEN") is set
    pc,                  \* position of the module-level script
    bound,               \* the module-level names that are bound
    wanted_action, wanted_amount, wanted_stock, single_broker, DRY,
    cli_mode, should_get_holdings, DISCORD,
    accounts,            \* adapter -> "unbound" | "bound": its init was called
                         \* and its global holds what init returned
    out,                 \* what the current request printed
    sent,                \* what the current request sent to the chat channel
    dispatched,          \* the transaction operations the current request invoked
    holdingsCalls,       \* the holdings operations the current request invoked
    exitCode,            \* -1 while the process runs
    req,                 \* the request handed to place_order / get_holdings
    handlers             \* the command handlers of the chat bot in flight

dvars == <<argv, DISCORD_TOKEN, pc, bound, wanted_action, wanted_amount,
           wanted_stock, single_broker, DRY, cli_mode, should_get_holdings,
           DISCORD, accounts, out, sent, dispatched, holdingsCalls, exitCode,
           req, handlers>>

VARIABLES
    \* ---- one adapter transaction operation (schwabAPI.py, robinhoodAPI.py,
    \*      fennelAPI.py) ----
    t_adapter,           \* "schwab" | "robinhood" | "fennel" | "none"
    t_order,             \* the order descriptor (stockOrder)
    t_agg,               \* the aggregate (Brokerage): identity -> accounts
    t_env,               \* os.getenv("SCHWAB_ACCOUNT_NUMBERS", "")
    t_pc,                \* "idle" | "loop" | "done"
    t_idx,               \* (symbol, identity, account) iterations finished
    t_calls,             \* brokerage API calls of the latest iteration
    t_out,               \* what the latest iteration reported
    t_ans                \* what the brokerage answered in the latest iteration

tvars == <<t_adapter, t_order, t_agg, t_env, t_pc, t_idx, t_calls, t_out,
           t_ans>>

VARIABLES
    \* ---- one adapter holdings operation ----
    h_adapter,           \* "schwab" | "robinhood" | "fennel" | "none"
    h_agg,               \* the aggregate: identity -> accounts
    h_pc,                \* "idle" | "loop" | "done"
    h_idx,               \* (identity, account) iterations finished
    h_positions,         \* what the brokerage reported for the latest account
    h_recorded,          \* the set_holdings calls of the latest iteration
    h_out                \* what the latest iteration reported

hvars == <<h_adapter, h_agg, h_pc, h_idx, h_positions, h_recorded, h_out>>

VARIABLES
    \* ---- one adapter init ----
    i_adapter,           \* "schwab" | "robinhood" | "fennel" | "none"
    i_creds,             \* the credential sets configured
    i_unattended,        \* chat-bot objects were supplied
    i_pc,                \* "idle" | "loop" | "returned"
    i_idx,               \* credential sets attempted
    i_agg,               \* the aggregate under construction
    i_registered,        \* per credential set attempted: its identity was
                         \* logged in and registered
    i_ret,               \* "" | "aggregate" | "None"
    i_ans                \* what the brokerage answered to the latest credential set

ivars == <<i_adapter, i_creds, i_unattended, i_pc, i_idx, i_agg, i_registered,
           i_ret, i_ans>>

VARIABLES
    \* ---- one Fennel session (fennelAPI.py, class Fennel) ----
    f_Bearer, f_Refresh, f_ID_Token,   \* self.Bearer, self.Refresh, self.ID_Token
    f_file,              \* the credential cache file and what is pickled in it
    f_issued,            \* token sets the service issued so far
    f_op,                \* the operation that ran last
    f_ret,               \* what it returned: "True" | "False" | "raise" | "none"
    f_pre,               \* self.Bearer when that operation was called
    f_reqs,              \* the requests it sent, in order
    f_prompted,          \* it asked for the code with input()
    f_ans                \* how it was called and what the service answered

fvars == <<f_Bearer, f_Refresh, f_ID_Token, f_file, f_issued, f_op, f_ret,
           f_pre, f_reqs, f_prompted, f_ans>>

VARIABLES
    \* ---- one call of isMarketHours (auto-rsa.py) ----
    m_now,               \* what datetime.now() returns
    m_op,                \* "none" | "isMarketHours" | "market"
    m_ret,               \* what isMarketHours() returned
    m_report             \* the hours and minutes isMarketHours(True) reported

mvars == <<m_now, m_op, m_ret, m_report>>

\* what the actions of one component leave alone
others_d == <<tvars, hvars, ivars, fvars, mvars>>
others_t == <<dvars, hvars, ivars, fvars, mvars>>
others_h == <<dvars, tvars, ivars, fvars, mvars>>
others_i == <<dvars, tvars, hvars, fvars, mvars>>
others_f == <<dvars, tvars, hvars, ivars, mvars>>
others_m == <<dvars, tvars, hvars, ivars, fvars>>

vars == <<dvars, tvars, hvars, ivars, fvars, mvars>>

(***************************************************************************)
(* The dispatcher as a state machine                                       *)
(***************************************************************************)

\* the dispatcher before the process starts, or while another component runs
DStart(lines, tokens, at) ==
    /\ argv \in lines
    /\ DISCORD_TOKEN \in tokens
    /\ pc = at
    /\ bound = {}
    /\ wanted_action = <<>>
    /\ wanted_amount = NoAmount
    /\ wanted_stock = <<>>
    /\ single_broker = <<>>
    /\ DRY = FALSE
    /\ cli_mode = FALSE
    /\ should_get_holdings = FALSE
    /\ DISCORD = FALSE
    /\ accounts = [a \in AdapterSet |-> "unbound"]
    /\ out = <<>>
    /\ sent = <<>>
    /\ dispatched = <<>>
    /\ holdingsCalls = <<>>
    /\ exitCode = -1
    /\ req = NoReq
    /\ handlers = <<>>
DInit == DStart(CommandLines, BOOLEAN, "parse")
DIdle == DStart({<<ScriptName>>}, {FALSE}, "off")

\* lines 27-67
ParseArgs ==
    /\ pc = "parse"
    /\ LET r == ParseCommandLine(argv)
       IN  /\ wanted_action' = r.wanted_action
           /\ wanted_amount' = r.wanted_amount
           /\ wanted_stock' = r.wanted_stock
           /\ single_broker' = r.single_broker
           /\ DRY' = r.DRY
           /\ cli_mode' = r.cli_mode
           /\ should_get_holdings' = r.should_get_holdings
           /\ bound' = r.bound
           /\ out' = r.out
           /\ pc' = IF r.status = "exit" THEN "done" ELSE "discord"
           /\ exitCode' = IF r.status = "exit" THEN 1 ELSE exitCode
    /\ UNCHANGED others_d
    /\ UNCHANGED <<handlers, argv, DISCORD_TOKEN, DISCORD, accounts, sent, dispatched,
                   holdingsCalls, req>>

\* lines 69-84
DiscordSetup ==
    /\ pc = "discord"
    /\ DISCORD' = (DISCORD_TOKEN /\ ~cli_mode)
    /\ IF ~cli_mode /\ ~should_get_holdings /\ ~DISCORD'
       THEN /\ out' = out \o <<MsgNoArgs>>
            /\ exitCode' = 1
            /\ pc' = "done"
            /\ UNCHANGED <<single_broker, bound>>
       ELSE /\ IF ~cli_mode /\ ~should_get_holdings /\ DISCORD'
               THEN /\ single_broker' = s_all
                    /\ bound' = bound \cup {"single_broker", "wanted_time",
                                            "wanted_price"}
               ELSE UNCHANGED <<single_broker, bound>>
            /\ pc' = "init"
            /\ UNCHANGED <<out, exitCode>>
    /\ UNCHANGED others_d
    /\ UNCHANGED <<handlers, argv, DISCORD_TOKEN, wanted_action, wanted_amount,
                   wanted_stock, DRY, cli_mode, should_get_holdings, accounts,
                   sent, dispatched, holdingsCalls, req>>

\* the if/elif chain of lines 87-121: the adapters whose init is called
InitTargets(b) ==
    IF b = s_all THEN AdapterSet
    ELSE IF b = s_ally THEN {"ally"}
    ELSE IF b = s_fidelity THEN {}
    ELSE IF b = s_robinhood \/ b = s_rh THEN {"robinhood"}
    ELSE IF b = s_schwab THEN {"schwab"}
    ELSE IF b = s_webull \/ b = s_wb THEN {"webull"}
    ELSE IF b = s_tradier THEN {"tradier"}
    ELSE {}
\* the else of line 122 is taken for every other token
IsInitBroker(b) ==
    b \in {s_all, s_ally, s_fidelity, s_robinhood, s_rh, s_schwab, s_webull,
           s_wb, s_tradier}

\* lines 86-124; each init called returns the aggregate or None, and the
\* dispatcher keeps either without looking at it
InitAccounts ==
    /\ pc = "init"
    /\ IF IsInitBroker(single_broker)
       THEN /\ accounts' = [a \in AdapterSet |->
                              IF a \in InitTargets(single_broker)
                              THEN "bound" ELSE accounts[a]]
            /\ pc' = "run"
            /\ UNCHANGED <<out, exitCode>>
       ELSE /\ out' = out \o <<MsgInvalidBroker>>
            /\ exitCode' = 1
            /\ pc' = "done"
            /\ UNCHANGED accounts
    /\ UNCHANGED others_d
    /\ UNCHANGED <<handlers, argv, DISCORD_TOKEN, bound, wanted_action, wanted_amount,
                   wanted_stock, single_broker, DRY, cli_mode,
                   should_get_holdings, DISCORD, sent, dispatched,
                   holdingsCalls, req>>

\* lines 240-249
HoldingsRun ==
    /\ pc = "run"
    /\ cli_mode /\ should_get_holdings /\ ~DISCORD
    /\ \E raises \in RaiseSets :
          LET r == get_holdings(single_broker, "None", raises)
          IN  /\ holdingsCalls' = r.calls
              /\ out' = out \o r.out
                          \o (IF r.raised THEN <<MsgErrorHoldings>> ELSE <<>>)
              /\ exitCode' = IF r.exits \/ r.raised THEN 1 ELSE 0
    /\ req' = [NoReq EXCEPT !.kind = "holdings", !.broker = single_broker]
    /\ pc' = "done"
    /\ UNCHANGED others_d
    /\ UNCHANGED <<handlers, argv, DISCORD_TOKEN, bound, wanted_action, wanted_amount,
                   wanted_stock, single_broker, DRY, cli_mode,
                   should_get_holdings, DISCORD, accounts, sent, dispatched>>

\* lines 251-259
OrderRun ==
    /\ pc = "run"
    /\ cli_mode /\ ~should_get_holdings /\ ~DISCORD
    /\ \E now \in OrderTimes, raises \in RaiseSets :
          LET r == place_order(wanted_action, wanted_amount, wanted_stock,
                               single_broker, DRY, "None", now, raises)
          IN  /\ dispatched' = r.calls
              /\ out' = out \o r.out \o (IF r.raised THEN <<MsgError>> ELSE <<>>)
              /\ sent' = r.sent
              /\ exitCode' = IF r.raised THEN 1 ELSE 0
              /\ req' = [kind |-> "order", action |-> wanted_action,
                         amount |-> wanted_amount, stock |-> wanted_stock,
                         broker |-> single_broker, dry |-> DRY, ctx |-> "None",
                         market |-> r.market]
    /\ pc' = "done"
    /\ UNCHANGED others_d
    /\ UNCHANGED <<handlers, argv, DISCORD_TOKEN, bound, wanted_action, wanted_amount,
                   wanted_stock, single_broker, DRY, cli_mode,
                   should_get_holdings, DISCORD, accounts, holdingsCalls>>

\* line 262: the chat bot starts and waits for commands
BotStart ==
    /\ pc = "run"
    /\ ~cli_mode /\ DISCORD
    /\ pc' = "bot"
    /\ UNCHANGED others_d
    /\ UNCHANGED <<handlers, argv, DISCORD_TOKEN, bound, wanted_action, wanted_amount,
                   wanted_stock, single_broker, DRY, cli_mode,
                   should_get_holdings, DISCORD, accounts, out, sent,
                   dispatched, holdingsCalls, exitCode, req>>

\* the event loop runs handler i of hs up to its next suspension
BotRuns(hs, i) ==
    LET g == Head(hs[i].todo)
    IN  /\ handlers' = [hs EXCEPT ![i] = Resumed(hs[i])]
        /\ pc' = CASE g.ends = "no" -> pc
                   [] g.ends = "close" -> "closing"
                   [] OTHER -> "done"
        /\ exitCode' = CASE g.ends = "exit0" -> 0
                         [] g.ends = "exit1" -> 1
                         [] OTHER -> exitCode
        /\ UNCHANGED others_d
        /\ UNCHANGED <<argv, DISCORD_TOKEN, bound, wanted_action,
                       wanted_amount, wanted_stock, single_broker, DRY,
                       cli_mode, should_get_holdings, DISCORD, accounts, out,
                       sent, dispatched, holdingsCalls, req>>

\* a command arrives while the bot is connected: its handler is entered and
\* runs up to its first suspension
BotEnters(h) ==
    /\ Len(handlers) < MaxHandlers
    /\ BotRuns(Append(handlers, h), Len(handlers) + 1)

\* a suspended handler is resumed and runs up to its next suspension
BotResumes(cmd) ==
    \E i \in 1..Len(handlers) :
        /\ handlers[i].cmd = cmd
        /\ handlers[i].todo # <<>>
        /\ BotRuns(handlers, i)

\* lines 284-302: !rsa <action> <amount> <ticker> <broker> <dry>
BotRsa ==
    /\ pc = "bot"
    /\ \E c \in IF handlers = <<>> THEN RsaCommands ELSE BusyRsaCommands :
          BotEnters(rsa(c))
BotRsaResumes ==
    /\ pc \in {"bot", "closing"}
    /\ BotResumes("rsa")

\* lines 305-314: !holdings <broker>
BotHoldings ==
    /\ pc = "bot"
    /\ \E c \in IF handlers = <<>> THEN HoldingsCommands
                ELSE BusyHoldingsCommands :
          BotEnters(holdings(c))
BotHoldingsResumes ==
    /\ pc \in {"bot", "closing"}
    /\ BotResumes("holdings")

\* lines 317-323: !restart
BotRestart ==
    /\ pc = "bot"
    /\ BotEnters(restart)
BotRestartResumes ==
    /\ pc \in {"bot", "closing"}
    /\ BotResumes("restart")

\* lines 270-273: !ping
BotPing ==
    /\ pc = "bot"
    /\ BotEnters(ping)
BotPingResumes ==
    /\ pc \in {"bot", "closing"}
    /\ BotResumes("ping")

\* a handler has returned (lines 300-302, 312-314): what the bot recorded
\* of its request is dropped
BotWait ==
    /\ pc \in {"bot", "closing"}
    /\ \E i \in 1..Len(handlers) :
          /\ handlers[i].todo = <<>>
          /\ handlers' = SubSeq(handlers, 1, i - 1)
                         \o SubSeq(handlers, i + 1, Len(handlers))
    /\ UNCHANGED others_d
    /\ UNCHANGED <<argv, DISCORD_TOKEN, pc, bound, wanted_action,
                   wanted_amount, wanted_stock, single_broker, DRY, cli_mode,
                   should_get_holdings, DISCORD, accounts, out, sent,
                   dispatched, holdingsCalls, exitCode, req>>

(***************************************************************************)
(* One adapter transaction operation as a state machine                    *)
(***************************************************************************)
\* before the first iteration no answer was given
NoAnswer == [none |-> TRUE]

TIdle ==
    /\ t_adapter = "none"
    /\ t_order = NoOrder
    /\ t_agg = [k \in Identities |-> <<>>]
    /\ t_env = <<>>
    /\ t_pc = "idle"
    /\ t_idx = 0
    /\ t_calls = <<>>
    /\ t_out = <<>>
    /\ t_ans = NoAnswer

\* the call of schwab_transaction, robinhood_transaction or
\* fennel_transaction with an aggregate and an order descriptor
TInit ==
    /\ t_adapter \in {"schwab", "robinhood", "fennel"}
    /\ t_order \in Orders
    /\ t_agg \in Aggregates
    /\ t_env \in (IF t_adapter = "schwab" THEN SchwabEnvs ELSE {<<>>})
    /\ t_pc = "loop"
    /\ t_idx = 0
    /\ t_calls = <<>>
    /\ t_out = <<>>
    /\ t_ans = NoAnswer

TItems == TransactionLoop(t_order.stocks, t_agg)

\* one pass of the innermost loop was made with the answers ans; an
\* exception nothing catches ends the operation
TAdvance(r, ans) ==
    /\ t_calls' = r.calls
    /\ t_out' = r.out
    /\ t_ans' = ans
    /\ t_idx' = t_idx + 1
    /\ t_pc' = IF r.raised THEN "raised" ELSE t_pc
    /\ UNCHANGED <<t_adapter, t_order, t_agg, t_env>>
    /\ UNCHANGED others_t

schwab_transaction ==
    /\ t_adapter = "schwab" /\ t_pc = "loop" /\ t_idx < Len(TItems)
    /\ \E ans \in SchwabAnswers :
          TAdvance(SchwabIteration(TItems[t_idx + 1], t_order, t_env, ans), ans)

robinhood_transaction ==
    /\ t_adapter = "robinhood" /\ t_pc = "loop" /\ t_idx < Len(TItems)
    /\ \E ans \in RobinhoodAnswers :
          TAdvance(RobinhoodIteration(TItems[t_idx + 1], t_order, ans), ans)

fennel_transaction ==
    /\ t_adapter = "fennel" /\ t_pc = "loop" /\ t_idx < Len(TItems)
    /\ \E ans \in FennelAnswers :
          TAdvance(FennelIteration(TItems[t_idx + 1], t_order, ans), ans)

\* the loops are exhausted: the operation returns
TransactionReturns ==
    /\ t_pc = "loop" /\ t_idx = Len(TItems)
    /\ t_pc' = "done"
    /\ UNCHANGED <<t_adapter, t_order, t_agg, t_env, t_idx, t_calls, t_out,
                   t_ans>>
    /\ UNCHANGED others_t

TNext ==
    \/ schwab_transaction
    \/ robinhood_transaction
    \/ fennel_transaction
    \/ TransactionReturns

(***************************************************************************)
(* One adapter holdings operation as a state machine                       *)
(***************************************************************************)
HStart(adapters, aggs, at) ==
    /\ h_adapter \in adapters
    /\ h_agg \in aggs
    /\ h_pc = at
    /\ h_idx = 0
    /\ h_positions = <<>>
    /\ h_recorded = <<>>
    /\ h_out = <<>>
HIdle == HStart({"none"}, {[k \in Identities |-> <<>>]}, "idle")
HInit == HStart({"schwab", "robinhood", "fennel"}, Aggregates, "loop")

HItems == HoldingsLoop(h_agg)

\* the next account is the first one of its identity
HFirstOfKey ==
    \/ h_idx = 0
    \/ HItems[h_idx].key # HItems[h_idx + 1].key

HAdvance(ans) ==
    LET r == HoldingsIteration(h_adapter, HItems[h_idx + 1], ans)
    IN  /\ h_positions' = ans.positions
        /\ h_recorded' = r.recorded
        /\ h_out' = r.out
        /\ h_idx' = h_idx + 1
        /\ h_pc' = IF r.raised THEN "raised" ELSE h_pc
        /\ UNCHANGED <<h_adapter, h_agg>>
        /\ UNCHANGED others_h

schwab_holdings ==
    /\ h_adapter = "schwab" /\ h_pc = "loop" /\ h_idx < Len(HItems)
    /\ \E ans \in HoldingsAnswers("schwab", HFirstOfKey) : HAdvance(ans)

\* robinhoodAPI.py 163-175: every position get_open_stock_positions
\* returns is recorded, whatever its quantity
robinhood_holdings ==
    /\ h_adapter = "robinhood" /\ h_pc = "loop" /\ h_idx < Len(HItems)
    /\ \E ans \in HoldingsAnswers("robinhood", HFirstOfKey) : HAdvance(ans)

fennel_holdings ==
    /\ h_adapter = "fennel" /\ h_pc = "loop" /\ h_idx < Len(HItems)
    /\ \E ans \in HoldingsAnswers("fennel", HFirstOfKey) : HAdvance(ans)

\* the loops are exhausted: printHoldings, and the operation returns
HoldingsReturns ==
    /\ h_pc = "loop" /\ h_idx = Len(HItems)
    /\ h_pc' = "done"
    /\ UNCHANGED <<h_adapter, h_agg, h_idx, h_positions, h_recorded, h_out>>
    /\ UNCHANGED others_h

HNext ==
    \/ schwab_holdings
    \/ robinhood_holdings
    \/ fennel_holdings
    \/ HoldingsReturns

(***************************************************************************)
(* One adapter init as a state machine                                     *)
(***************************************************************************)
IStart(adapters, lists, modes, at) ==
    /\ i_adapter \in adapters
    /\ i_creds \in lists
    /\ i_unattended \in modes
    /\ i_pc = at
    /\ i_idx = 0
    /\ i_agg = EmptyAggregate
    /\ i_registered = <<>>
    /\ i_ret = ""
    /\ i_ans = NoAnswer
IIdle == IStart({"none"}, {<<>>}, {FALSE}, "idle")
IInit == IStart({"schwab", "robinhood", "fennel"}, CredLists, BOOLEAN, "loop")

IAdvance(r, ans) ==
    /\ i_agg' = r.agg
    /\ i_ans' = ans
    /\ i_registered' = Append(i_registered, r.registered)
    /\ i_idx' = i_idx + 1
    /\ i_pc' = IF r.returns THEN "returned" ELSE i_pc
    /\ i_ret' = IF r.returns THEN "None" ELSE i_ret
    /\ UNCHANGED <<i_adapter, i_creds, i_unattended>>
    /\ UNCHANGED others_i

schwab_init ==
    /\ i_adapter = "schwab" /\ i_pc = "loop" /\ i_idx < Len(i_creds)
    /\ \E ans \in SchwabLoginAnswers :
          IAdvance(SchwabLogin(i_agg, i_creds, i_idx + 1, ans), ans)

robinhood_init ==
    /\ i_adapter = "robinhood" /\ i_pc = "loop" /\ i_idx < Len(i_creds)
    /\ \E ans \in RobinhoodLoginAnswers :
          IAdvance(RobinhoodLogin(i_agg, i_creds, i_idx + 1, ans), ans)

fennel_init ==
    /\ i_adapter = "fennel" /\ i_pc = "loop" /\ i_idx < Len(i_creds)
    /\ \E ans \in FennelLoginAnswers :
          IAdvance(FennelLogin(i_agg, i_idx + 1, i_unattended, ans), ans)

\* the loop is exhausted: the init returns the aggregate
InitReturns ==
    /\ i_pc = "loop" /\ i_idx = Len(i_creds)
    /\ i_pc' = "returned"
    /\ i_ret' = "aggregate"
    /\ UNCHANGED <<i_adapter, i_creds, i_unattended, i_idx, i_agg, i_registered,
                   i_ans>>
    /\ UNCHANGED others_i

INext ==
    \/ schwab_init
    \/ robinhood_init
    \/ fennel_init
    \/ InitReturns

(***************************************************************************)
(* One Fennel session as a state machine                                   *)
(***************************************************************************)
FSession == [Bearer |-> f_Bearer, Refresh |-> f_Refresh,
             ID_Token |-> f_ID_Token, file |-> f_file]

\* the session becomes r.s, after the operation op that was answered ans,
\* sent r.reqs and returned ret, and was issued the token sets up to issued
FBecomes(r, op, ret, issued, ans) ==
    /\ f_Bearer' = r.s.Bearer
    /\ f_Refresh' = r.s.Refresh
    /\ f_ID_Token' = r.s.ID_Token
    /\ f_file' = r.s.file
    /\ f_op' = op
    /\ f_ret' = ret
    /\ f_issued' = issued
    /\ f_pre' = f_Bearer
    /\ f_reqs' = r.reqs
    /\ f_prompted' = r.prompted
    /\ f_ans' = ans
    /\ UNCHANGED others_f

\* a Fennel object constructed over the cache files found
FStart(files) ==
    /\ f_file \in files
    /\ f_Bearer = FennelNew(f_file).Bearer
    /\ f_Refresh = FennelNew(f_file).Refresh
    /\ f_ID_Token = FennelNew(f_file).ID_Token
    /\ f_issued = 1
    /\ f_op = "__init__"
    /\ f_ret = "none"
    /\ f_pre = 0
    /\ f_reqs = <<>>
    /\ f_prompted = FALSE
    /\ f_ans = NoAnswer
FIdle == FStart({NoFile})
FInit == FStart(CacheFiles)

\* Fennel(...) is constructed again over the cache file left behind
Fennel_init ==
    /\ f_op # "__init__"
    /\ FBecomes([s |-> FennelNew(f_file), reqs |-> <<>>, prompted |-> FALSE],
                "__init__", "none", f_issued, NoAnswer)

Fennel_verify_login ==
    /\ f_issued + 1 <= MaxTokens
    /\ \E ans \in VerifyAnswers :
          LET r == verify_login(FSession, ans, f_issued + 1)
          IN  FBecomes(r @@ [prompted |-> FALSE], "_verify_login",
                       IF r.ret THEN "True" ELSE "False", f_issued + 1, ans)

Fennel_login ==
    /\ f_issued + 3 <= MaxTokens + 1
    /\ \E ans \in FennelSessionAnswers, wait_for_code \in BOOLEAN,
          code \in BOOLEAN :
          LET r == login(FSession, wait_for_code, code, ans, f_issued + 1)
          IN  \* an answer that is never asked for is held at "ok"
              /\ ~HasBearer(FSession) =>
                    ans.verify = [ids |-> "ok", refresh |-> "ok", ids2 |-> "ok"]
              /\ code => (ans.start = "ok" /\ wait_for_code)
              /\ FBecomes(r, "login", r.ret, f_issued + 3,
                          ans @@ [wait_for_code |-> wait_for_code,
                                  code |-> code])

\* a token refresh by itself (lines 121-140)
Fennel_refresh_token ==
    /\ f_issued + 1 <= MaxTokens
    /\ \E a \in {"ok", "null", "partial", "fail"} :
          LET r == refresh_token(FSession, a, f_issued + 1)
          IN  FBecomes(r @@ [prompted |-> FALSE], "refresh_token",
                       IF r.raised THEN "raise" ELSE "returned", f_issued + 1,
                       [refresh |-> a])

\* one of the operations under check_login that send one request
Fennel_request ==
    /\ \E op \in AuthenticatedOps, a \in {"ok", "fail"} :
          LET r == authenticated(FSession, op, a)
          IN  FBecomes([s |-> FSession, reqs |-> r.reqs, prompted |-> FALSE],
                       op, r.ret, f_issued, NoAnswer)

\* place_order (lines 302-344) on the session as it is
Fennel_place_order ==
    /\ \E side \in {s_buy, s_sell}, dry_run \in BOOLEAN, ans \in FennelAnswers :
          LET r == FennelPlaceOrder(check_login(FSession), side, dry_run, ans)
              reqs == [i \in 1..Len(r.calls) |-> Req(r.calls[i].api, f_Bearer)]
          IN  \* an answer that is never asked for is held at a default
              /\ ~check_login(FSession) =>
                    ans = [market |-> "open", search |-> "isin",
                           holdings |-> "isin", tradable |-> "yes",
                           create |-> "pending"]
              /\ FBecomes([s |-> FSession, reqs |-> reqs, prompted |-> FALSE],
                          "place_order", r.result, f_issued,
                          [side |-> side, dry_run |-> dry_run])

FNext ==
    \/ Fennel_init
    \/ Fennel_verify_login
    \/ Fennel_login
    \/ Fennel_refresh_token
    \/ Fennel_request
    \/ Fennel_place_order

(***************************************************************************)
(* One call of isMarketHours as a state machine                            *)
(***************************************************************************)
NoReport == [open |-> FALSE, hours |-> 0, minutes |-> 0]
MStart(times) ==
    /\ m_now \in times
    /\ m_op = "none"
    /\ m_ret = FALSE
    /\ m_report = NoReport
MIdle == MStart({[h |-> 0, m |-> 0, s |-> 0, weekday |-> 0]})
MInit == MStart(ClockTimes)

\* lines 130-141: isMarketHours(), as place_order calls it
isMarketHours_check ==
    /\ m_op = "none"
    /\ m_op' = "isMarketHours"
    /\ m_ret' = isMarketHours(m_now)
    /\ UNCHANGED <<m_now, m_report>>
    /\ UNCHANGED others_m

\* lines 276-278: the market command, isMarketHours(True, ctx)
market ==
    /\ m_op = "none"
    /\ m_op' = "market"
    /\ m_report' = isMarketHours_timeUntil(m_now)
    /\ UNCHANGED <<m_now, m_ret>>
    /\ UNCHANGED others_m

MNext ==
    \/ isMarketHours_check
    \/ market

Init == DInit /\ TIdle /\ HIdle /\ IIdle /\ FIdle /\ MIdle

Next ==
    \/ ParseArgs
    \/ DiscordSetup
    \/ InitAccounts
    \/ HoldingsRun
    \/ OrderRun
    \/ BotStart
    \/ BotRsa
    \/ BotRsaResumes
    \/ BotHoldings
    \/ BotHoldingsResumes
    \/ BotRestart
    \/ BotRestartResumes
    \/ BotPing
    \/ BotPingResumes
    \/ BotWait

Spec == Init /\ [][Next]_vars

\* a transaction operation entered with an order and an aggregate
InitTxn == DIdle /\ TInit /\ HIdle /\ IIdle /\ FIdle /\ MIdle
SpecTxn == InitTxn /\ [][TNext]_vars

\* a holdings operation entered with an aggregate
InitHold == DIdle /\ TIdle /\ HInit /\ IIdle /\ FIdle /\ MIdle
SpecHold == InitHold /\ [][HNext]_vars

\* an init entered with the credential sets of its environment
InitInit == DIdle /\ TIdle /\ HIdle /\ IInit /\ FIdle /\ MIdle
SpecInit == InitInit /\ [][INext]_vars

\* a Fennel session constructed over the cache file of an earlier run
InitSession == DIdle /\ TIdle /\ HIdle /\ IIdle /\ FInit /\ MIdle
SpecSession == InitSession /\ [][FNext]_vars

\* one call of isMarketHours at a time of the clock
InitMarket == DIdle /\ TIdle /\ HIdle /\ IIdle /\ FIdle /\ MInit
SpecMarket == InitMarket /\ [][MNext]_vars

(***************************************************************************)
(* Claims about the dispatcher, checked under Spec                         *)
(***************************************************************************)
Said(m) == \E i \in 1..Len(out) : out[i] = m

\* the requests being served: the one of the command line, which has
\* returned once it is recorded, and those of the chat handlers in flight
Requests ==
    (IF req.kind = "none" THEN {}
     ELSE {[cmd |-> "cli", req |-> req, out |-> out, sent |-> sent,
            dispatched |-> dispatched, holdingsCalls |-> holdingsCalls,
            todo |-> <<>>]})
    \cup {handlers[i] : i \in 1..Len(handlers)}
Returned(q) == q.todo = <<>>
SaidTo(q, m) == \E i \in 1..Len(q.out) : q.out[i] = m
SentTo(q, m) == \E i \in 1..Len(q.sent) : q.sent[i] = m
Invoked(q, a) == \E i \in 1..Len(q.dispatched) : q.dispatched[i].adapter = a

\* the command line has the shape <action> <amount> <ticker> <broker> ...
OrderLine(n) == Argc(argv) = n /\ Arg(argv, 1) # s_holdings
Parsed == pc # "parse"

\* C1: whenever the market-hours check of an order request returned closed,
\* place_order reported "Market is closed" (on the console, and on the chat
\* channel when there is one, by the time it returned), returned normally,
\* and invoked no adapter's transaction operation.
C1_ClosedMarketNoDispatch ==
    \A q \in Requests :
        (q.req.kind = "order" /\ q.req.market = "closed") =>
            /\ SaidTo(q, MsgClosed)
            /\ (q.req.ctx = "ctx" /\ Returned(q) => SentTo(q, MsgClosed))
            /\ q.dispatched = <<>>
            /\ ~SaidTo(q, MsgErrorPlacing) /\ ~SaidTo(q, MsgError)
            /\ (q.req.ctx = "None" => exitCode = 0)
C1_Witness ==
    \E q \in Requests :
        /\ q.req.kind = "order" /\ q.req.market = "closed"
        /\ Lower(q.req.broker) = s_all /\ q.req.ctx = "ctx" /\ ~q.req.dry
        /\ Returned(q) /\ SentTo(q, MsgClosed)

\* C3: in "all" mode with the market open and a valid amount, every adapter
\* of the dispatch sequence has had its transaction operation invoked by the
\* time the request returns, whether or not an earlier one failed.
C3_AllModeReachesEveryAdapter ==
    \A q \in Requests :
        ( /\ q.req.kind = "order" /\ q.req.market = "open"
          /\ Lower(q.req.broker) = s_all
          /\ (q.req.amount.kind = "int" \/ CanParseInt(q.req.amount.s))
          /\ Returned(q) )
        => \A a \in AdapterSet : Invoked(q, a)

\* C5: a command-line order whose amount is neither an integer nor the
\* literal "all" prints the invalid-amount error and exits with code 1, no
\* adapter initialized and no order dispatched.
C5_BadAmountToken(a) ==
    a \in {<<"a","b","c">>, <<"1",".","5">>, <<"A","L","L">>, <<"f","i","v","e">>}
C5_InvalidAmountRejected ==
    ( /\ Argc(argv) > 2 /\ Arg(argv, 1) # s_holdings
      /\ C5_BadAmountToken(Arg(argv, 2))
      /\ Parsed )
    => /\ pc = "done" /\ exitCode = 1
       /\ Said(MsgInvalidAmount)
       /\ \A a \in AdapterSet : accounts[a] = "unbound"
       /\ dispatched = <<>> /\ holdingsCalls = <<>>
C5_Witness ==
    /\ OrderLine(6) /\ Arg(argv, 2) = <<"a","b","c">>
    /\ pc = "done" /\ exitCode = 1 /\ Said(MsgInvalidAmount)

\* C6: a command-line order whose amount is the literal "all" is accepted:
\* the requested quantity is "all" and no invalid-amount error is printed.
C6_AllAmountAccepted ==
    (Argc(argv) > 2 /\ Arg(argv, 1) # s_holdings /\ Arg(argv, 2) = s_all /\ Parsed)
    => /\ wanted_amount = StrAmount(s_all)
       /\ ~Said(MsgInvalidAmount)

\* C7: an order request (command line with a valid amount, or chat bot)
\* whose broker token is outside the enumerated set reports "Invalid broker"
\* and invokes no adapter's transaction operation.  The command-line token
\* "dry", which stands for the dry-run flag in the broker position, is left
\* out.
C7_UnknownBroker(tok) == tok = <<"f","o","o">>
C7_InvalidBrokerReported ==
    /\ ( /\ Argc(argv) >= 5 /\ Arg(argv, 1) # s_holdings
         /\ Arg(argv, 2) \in {<<"5">>, <<"-","2">>}
         /\ C7_UnknownBroker(Arg(argv, 4))
         /\ pc = "done" )
       => (Said(MsgInvalidBroker) /\ dispatched = <<>>)
    /\ \A q \in Requests :
          (q.req.kind = "order" /\ q.req.ctx = "ctx"
             /\ C7_UnknownBroker(q.req.broker))
          => /\ SaidTo(q, MsgInvalidBroker)
             /\ (Returned(q) => SentTo(q, MsgInvalidBroker))
             /\ q.dispatched = <<>>

\* C8: `<action> <integer> <ticker> <broker> dry` with a single brokerage
\* parses to the lower-cased action, the integer, the upper-cased ticker,
\* that broker and dry-run true; only that broker's adapter is initialized,
\* only its transaction operation is invoked, with the dry-run flag true,
\* and with the market open it is invoked (once).
C8_Lowered(tok) ==
    CASE tok = <<"b","u","y">> -> <<"b","u","y">>
      [] tok = <<"S","e","l","l">> -> <<"s","e","l","l">>
      [] tok = <<"S","c","h","w","a","b">> -> s_schwab
      [] OTHER -> tok
C8_Uppered(tok) ==
    CASE tok = <<"a","a","P","L">> -> <<"A","A","P","L">>
      [] OTHER -> tok
C8_Number(tok) ==
    CASE tok = <<"5">> -> 5
      [] tok = <<"-","2">> -> 0 - 2
      [] OTHER -> 0
C8_AdapterOf(b) ==
    CASE b = s_ally -> {"ally"}
      [] b \in {s_robinhood, s_rh} -> {"robinhood"}
      [] b \in {s_schwab, <<"S","c","h","w","a","b">>} -> {"schwab"}
      [] b \in {s_webull, s_wb} -> {"webull"}
      [] b = s_tradier -> {"tradier"}
      [] OTHER -> {}
C8_Form ==
    /\ OrderLine(6)
    /\ Arg(argv, 2) \in {<<"5">>, <<"-","2">>}
    /\ Arg(argv, 4) \in {s_ally, s_fidelity, s_robinhood, s_rh, s_schwab,
                         <<"S","c","h","w","a","b">>, s_webull, s_wb, s_tradier}
    /\ Arg(argv, 5) \in {s_dry, <<"D","R","Y">>}
C8_SingleBrokerDryOrder ==
    (C8_Form /\ Parsed) =>
        /\ wanted_action = C8_Lowered(Arg(argv, 1))
        /\ wanted_amount = IntAmount(C8_Number(Arg(argv, 2)))
        /\ wanted_stock = C8_Uppered(Arg(argv, 3))
        /\ single_broker = C8_Lowered(Arg(argv, 4))
        /\ DRY = TRUE
        /\ {"single_broker", "DRY"} \subseteq bound
        /\ \A a \in AdapterSet :
              accounts[a] = "bound" => a \in C8_AdapterOf(Arg(argv, 4))
        /\ (pc \in {"run", "done"} =>
              \A a \in C8_AdapterOf(Arg(argv, 4)) : accounts[a] = "bound")
        /\ \A i \in 1..Len(dispatched) :
              /\ dispatched[i].adapter \in C8_AdapterOf(Arg(argv, 4))
              /\ dispatched[i].dry = TRUE
              /\ dispatched[i].action = C8_Lowered(Arg(argv, 1))
              /\ dispatched[i].amount = C8_Number(Arg(argv, 2))
              /\ dispatched[i].stock = C8_Uppered(Arg(argv, 3))
        /\ (pc = "done" /\ req.market = "open" =>
              Len(dispatched) = Cardinality(C8_AdapterOf(Arg(argv, 4))))
C8_Witness ==
    /\ argv = <<ScriptName, <<"b","u","y">>, <<"5">>, <<"a","a","P","L">>,
                s_schwab, s_dry>>
    /\ pc = "done" /\ req.market = "open"
    /\ Len(dispatched) = 1
    /\ dispatched[1] = [adapter |-> "schwab", action |-> <<"b","u","y">>,
                        stock |-> <<"A","A","P","L">>, amount |-> 5,
                        dry |-> TRUE]

\* C9: `<action> <amount> <ticker> <broker>` with a valid broker and no
\* fifth argument parses with the target broker and the dry-run flag both
\* bound, and goes on to initialization instead of failing while parsing.
C9_DryArgumentOptional ==
    ( /\ OrderLine(5)
      /\ Arg(argv, 2) \in {<<"5">>, <<"-","2">>}
      /\ InBrokerages(Lower(Arg(argv, 4)))
      /\ Parsed )
    => /\ {"single_broker", "DRY"} \subseteq bound
       /\ ~Said(MsgNameError)
       /\ ~(pc = "done" /\ \A a \in AdapterSet : accounts[a] = "unbound"
                        /\ single_broker # s_fidelity)

(***************************************************************************)
(* Claims about the transaction operations, checked under SpecTxn          *)
(***************************************************************************)
\* C2: with the dry-run flag set, no transaction operation submits a real
\* order: robinhood_transaction calls no order function, every Schwab trade
\* call (trade_v2 and the retry) carries dry_run = true, and Fennel never
\* sends the order-creation request, reporting the simulated success
\* whenever place_order returns.
C2_DryRunSubmitsNothing ==
    t_order.dry =>
        /\ \A i \in 1..Len(t_calls) :
              /\ t_calls[i].dry_run = TRUE
              /\ ~t_calls[i].submits
              /\ t_calls[i].api # "createOrder"
        /\ (t_adapter = "robinhood" => t_calls = <<>>)
        /\ (t_adapter = "fennel" /\ t_idx > 0 =>
              t_out \in {<<"Dry Run Success">>, <<"Error placing order">>})
C2_Witness ==
    /\ t_order.dry /\ t_adapter = "schwab"
    /\ Len(t_calls) = 2
    /\ t_calls[1].api = "trade_v2" /\ t_calls[2].api = "trade"
    /\ t_idx = Len(TItems) /\ t_idx >= 2

\* C11: no exception leaves a transaction operation, and the operation
\* returns only after every (symbol, identity, account) iteration was made.
C11_TransactionIsolatesFailures ==
    /\ t_pc # "raised"
    /\ (t_pc = "done" => t_idx = Len(TItems))

\* C18: in schwab_transaction an attempted (symbol, account) gets the
\* secondary trade call exactly once when trade_v2 reported failure and not
\* at all otherwise, at most two submission calls are made, the first of
\* them trade_v2, and the loop goes on to the next account or symbol.
C18_Attempted ==
    /\ t_adapter = "schwab" /\ t_idx > 0
    /\ ~SchwabSkips(t_order, t_env, TItems[t_idx].account)
C18_RetryCalls == {i \in 1..Len(t_calls) : t_calls[i].api = "trade"}
C18_RetryIffPrimaryFailed ==
    C18_Attempted =>
        /\ Len(t_calls) \in {1, 2}
        /\ t_calls[1].api = "trade_v2"
        /\ (t_ans.v2 = "fail" => C18_RetryCalls = {2})
        /\ (t_ans.v2 # "fail" => Len(t_calls) = 1)
        /\ t_pc \in {"loop", "done"}
C18_Witness ==
    /\ C18_Attempted /\ t_ans.v2 = "fail" /\ t_ans.retry = "fail"
    /\ C18_RetryCalls = {2}
    /\ t_idx >= 2 /\ t_pc = "done"

\* C19: a live robinhood_transaction submits a limit order only after a
\* market order that returned nothing, with ask and bid both known; its
\* price is the higher of the two plus one cent for a buy and the lower of
\* the two minus one cent for a sell; with ask or bid unknown no limit order
\* is submitted and the error is reported.
C19_Max(a, b) == IF a >= b THEN a ELSE b
C19_Min(a, b) == IF a <= b THEN a ELSE b
C19_LimitCalls == {i \in 1..Len(t_calls) : t_calls[i].kind = "limit"}
C19_Attempted ==
    /\ t_adapter = "robinhood" /\ t_idx > 0 /\ ~t_order.dry
    /\ t_ans.relogin = "ok"
C19_LimitOrderPrice ==
    C19_Attempted =>
        /\ (C19_LimitCalls # {} =>
              /\ t_ans.market = "none" /\ t_ans.ask # 0 /\ t_ans.bid # 0
              /\ C19_LimitCalls = {2})
        /\ \A i \in C19_LimitCalls :
              /\ (t_order.action = s_buy =>
                    t_calls[i].limitPrice = C19_Max(t_ans.ask, t_ans.bid) + 1)
              /\ (t_order.action = s_sell =>
                    t_calls[i].limitPrice = C19_Min(t_ans.ask, t_ans.bid) - 1)
        /\ (t_ans.market = "none" /\ (t_ans.ask = 0 \/ t_ans.bid = 0) =>
              /\ C19_LimitCalls = {}
              /\ \E k \in 1..Len(t_out) : t_out[k] = "Error getting price")
C19_Witness ==
    /\ C19_Attempted /\ t_order.action = s_sell
    /\ t_ans.market = "none" /\ t_ans.ask = 105 /\ t_ans.bid = 100
    /\ C19_LimitCalls = {2} /\ t_calls[2].limitPrice = 99

(***************************************************************************)
(* Claims about the holdings operations, checked under SpecHold            *)
(***************************************************************************)
\* C4: no holdings operation records a position whose quantity is zero.
C4_NoZeroQuantityRecorded ==
    \A i \in 1..Len(h_recorded) : ~h_recorded[i].zero

\* C12: no exception leaves a holdings operation: after a failure for one
\* account the remaining accounts are still fetched, and the operation ends
\* with the holdings report, every account visited.
C12_HoldingsIsolatesFailures ==
    /\ h_pc # "raised"
    /\ (h_pc = "done" => h_idx = Len(HItems))

(***************************************************************************)
(* Claims about the inits, checked under SpecInit                          *)
(***************************************************************************)
\* the identity name a credential set is logged in under
C10_NameOf(j) == IF i_adapter = "fennel" THEN j ELSE FirstIndex(i_creds, i_creds[j])

\* C10: after a login failure the remaining credential sets are still
\* attempted, and the init returns an aggregate that retains every identity
\* that logged in, before or after the failing one.
C10_InitSurvivesLoginFailure ==
    i_pc = "returned" =>
        /\ Len(i_registered) = Len(i_creds)
        /\ \A j \in 1..Len(i_registered) :
              i_registered[j] =>
                  (i_ret = "aggregate" /\ C10_NameOf(j) \in i_agg.objs)

\* C13: in an unattended fennel_init, a credential set whose one-time code
\* is not received fails alone: its identity gets no session handle and no
\* account, the loop goes on to the next credential set, and fennel_init
\* returns the aggregate after every credential set was attempted.
C13_NoCode ==
    /\ i_adapter = "fennel" /\ i_unattended /\ i_idx > 0
    /\ ~i_ans.cached /\ i_ans.start = "ok" /\ i_ans.code = "none"
C13_MissingCodeFailsOneSet ==
    /\ C13_NoCode =>
          /\ ~i_registered[i_idx]
          /\ i_idx \notin i_agg.objs
          /\ i_agg.accts[i_idx] = <<>>
          /\ (i_idx < Len(i_creds) => i_pc = "loop")
    /\ (i_adapter = "fennel" /\ i_pc = "returned") =>
          (i_ret = "aggregate" /\ Len(i_registered) = Len(i_creds))
C13_Witness ==
    /\ C13_NoCode /\ i_idx = 1 /\ Len(i_creds) = 2 /\ i_pc = "loop"
    /\ ~i_registered[1]

\* C14: the aggregate of an init never holds an account, or an account
\* sub-handle, of an identity that has no session handle.
C14_HandleBeforeAccounts ==
    /\ \A name \in DOMAIN i_agg.accts :
          i_agg.accts[name] # <<>> => name \in i_agg.objs
    /\ \A s \in i_agg.subs : s[1] \in i_agg.objs
C14_Witness ==
    /\ i_adapter = "fennel" /\ i_idx = 1
    /\ i_ans.ids = 2 /\ i_ans.failAt = 2 /\ i_ans.failKind = "totals"
    /\ Len(i_agg.accts[1]) = 2 /\ 1 \in i_agg.objs

\* C17: a credential tuple with no third field is taken as "no two-factor
\* secret": when the brokerage accepts the login and lists the accounts, the
\* identity is registered and the init goes on.
C17_TwoFieldTuple ==
    /\ i_adapter \in {"schwab", "robinhood"} /\ i_idx > 0
    /\ i_creds[i_idx] = <<"c", ":", "p">>
C17_Accepted ==
    \/ i_adapter = "schwab" /\ i_ans.login = "ok" /\ i_ans.info >= 0
    \/ i_adapter = "robinhood" /\ i_ans.login = "token"
C17_SecretIsOptional ==
    (C17_TwoFieldTuple /\ C17_Accepted) =>
        (i_registered[i_idx] /\ i_pc = "loop")

(***************************************************************************)
(* Further claims about the dispatcher, checked under Spec                 *)
(***************************************************************************)
\* C15: the amount and the broker of an order request are validated before
\* the market-hours check: a request with an invalid amount or an
\* unrecognized broker ends with a validation error ("Invalid broker", or
\* the error of the amount conversion), never with "Market is closed",
\* whether the market is open or closed.
C15_InvalidRequest(q) ==
    /\ q.req.kind = "order"
    /\ \/ ~(q.req.amount.kind = "int" \/ CanParseInt(q.req.amount.s))
       \/ ~InBrokerages(Lower(q.req.broker))
C15_ValidationBeforeMarketHours ==
    \A q \in Requests :
        C15_InvalidRequest(q) =>
            /\ ~SaidTo(q, MsgClosed)
            /\ (SaidTo(q, MsgInvalidBroker) \/ SaidTo(q, MsgErrorPlacing))
            /\ q.dispatched = <<>>

\* C16: the command line `holdings <broker>` with a broker of the
\* enumerated set is accepted: the holdings operation of every adapter the
\* token designates is invoked and the process exits with code 0, without
\* "Invalid broker".
C16_Designated(b) == IF b = s_all THEN AdapterSet ELSE C8_AdapterOf(b)
C16_HoldingsBrokerAccepted ==
    ( /\ Argc(argv) = 3 /\ Arg(argv, 1) = s_holdings
      /\ InBrokerages(Lower(Arg(argv, 2)))
      /\ pc = "done" )
    => /\ exitCode = 0
       /\ ~Said(MsgInvalidBroker)
       /\ {holdingsCalls[i] : i \in 1..Len(holdingsCalls)}
             = C16_Designated(Lower(Arg(argv, 2)))

(***************************************************************************)
(* Claims about the Fennel session, checked under SpecSession              *)
(***************************************************************************)
\* C20: whenever _verify_login returned False the credential cache file
\* does not exist and Bearer, Refresh and ID_Token are all None; whenever it
\* returned True, Bearer is set.
C20_VerifyLoginClearsCache ==
    f_op = "_verify_login" =>
        /\ (f_ret = "False" =>
              /\ ~f_file.exists
              /\ f_Bearer = 0 /\ f_Refresh = 0 /\ f_ID_Token = 0)
        /\ (f_ret = "True" => f_Bearer # 0)
        /\ f_ret \in {"True", "False"}
C20_Witness ==
    /\ f_op = "_verify_login" /\ f_ret = "False"
    /\ f_issued = MaxTokens
    /\ ~f_file.exists /\ f_Bearer = 0


(***************************************************************************)
(* Further claims, checked under Spec, SpecInit and SpecTxn                *)
(***************************************************************************)
\* C22: a run started with command-line arguments never goes on into
\* chat-bot mode; it ends with exit code 0 or 1, with 0 only after the
\* requested action was performed without an exception, and with 1 after
\* every argument or validation error and every exception.
C22_CliRun == Argc(argv) >= 2
C22_Failed ==
    \/ Said(MsgInvalidAmount) \/ Said(MsgInvalidBroker) \/ Said(MsgNoArgs)
    \/ Said(MsgIndexError) \/ Said(MsgNameError)
    \/ Said(MsgError) \/ Said(MsgErrorHoldings)
C22_CliExitCodes ==
    C22_CliRun =>
        /\ pc \in {"parse", "discord", "init", "run", "done"}
        /\ pc = "done" => /\ exitCode \in {0, 1}
                          /\ (exitCode = 1 <=> C22_Failed)
                          /\ (exitCode = 0 => req.kind # "none")

\* C23: a credential set whose login call returned a failure result or
\* raised registers nothing: no session handle and no account of its
\* identity is added to the aggregate.
C23_LoginFailed ==
    /\ i_idx > 0
    /\ \/ i_adapter = "schwab" /\ Len(Split(i_creds[i_idx], ":")) >= 3
                               /\ i_ans.login \in {"false", "raise"}
       \/ i_adapter = "robinhood" /\ Len(Split(i_creds[i_idx], ":")) >= 2
                                  /\ i_ans.login \in {"no_token", "none", "raise"}
       \/ i_adapter = "fennel" /\ ~i_ans.cached
                               /\ (i_ans.start = "fail" \/ i_ans.exchange = "fail")
C23_RegisteredOnlyAfterLogin ==
    C23_LoginFailed =>
        /\ ~i_registered[i_idx]
        /\ (\A j \in 1..(i_idx - 1) : C10_NameOf(j) # C10_NameOf(i_idx))
               => /\ C10_NameOf(i_idx) \notin i_agg.objs
                  /\ i_agg.accts[C10_NameOf(i_idx)] = <<>>

\* C29: after fennel_init returned, every account that get_account_numbers
\* lists for an identity has its account-id sub-handle in the aggregate,
\* also when the registration of an account failed at the cash total.
C29_EveryAccountHasSubHandle ==
    (i_adapter = "fennel" /\ i_pc = "returned") =>
        \A name \in DOMAIN i_agg.accts :
            \A j \in 1..Len(i_agg.accts[name]) :
                <<name, i_agg.accts[name][j]>> \in i_agg.subs

\* C28: in schwab_transaction, with SCHWAB_ACCOUNT_NUMBERS holding a list
\* and an action other than sell, no trade call is made for an account that
\* is not an element of the colon-separated list; with the variable unset or
\* empty (blank), or the action sell, the account of every iteration gets a
\* trade attempt for the symbol, and every iteration is reached.
C28_Item == TItems[t_idx]
\* account is one of the colon-delimited fields of e
C28_Listed(account, e) ==
    \E i \in 1..(Len(e) + 1) :
        /\ (i = 1 \/ e[i - 1] = ":")
        /\ i + Len(account) - 1 <= Len(e)
        /\ SubSeq(e, i, i + Len(account) - 1) = account
        /\ (i + Len(account) - 1 = Len(e) \/ e[i + Len(account)] = ":")
C28_Restricted == Strip(t_env) # <<>> /\ Lower(t_order.action) # s_sell
C28_AccountRestriction ==
    /\ (t_adapter = "schwab" /\ t_idx > 0) =>
          /\ (C28_Restricted /\ ~C28_Listed(C28_Item.account, Strip(t_env)))
                 => t_calls = <<>>
          /\ ~C28_Restricted
                 => /\ t_calls # <<>>
                    /\ t_calls[1].account = C28_Item.account
                    /\ t_calls[1].ticker = C28_Item.s
    /\ (t_adapter = "schwab" /\ t_pc = "done") => t_idx = Len(TItems)
C28_Witness ==
    /\ t_adapter = "schwab" /\ t_idx = 2 /\ C28_Restricted
    /\ C28_Listed(TItems[1].account, Strip(t_env))
    /\ ~C28_Listed(C28_Item.account, Strip(t_env))
    /\ t_calls = <<>>


(***************************************************************************)
(* Claims about isMarketHours, checked under SpecMarket                    *)
(***************************************************************************)
C26_MinuteOfDay == 60 * m_now.h + m_now.m
\* C26: isMarketHours() returns true exactly when the time of day, taken
\* to the minute, is after 09:30 and before 16:00, whatever the seconds and
\* the day of the week; it is false all through the minutes 09:30 and 16:00.
C26_OpenExactlyBetween ==
    m_op = "isMarketHours" =>
        (m_ret <=> (60 * 9 + 30 < C26_MinuteOfDay /\ C26_MinuteOfDay < 60 * 16))
C26_Witness ==
    /\ m_op = "isMarketHours" /\ ~m_ret
    /\ m_now.h = 9 /\ m_now.m = 30 /\ m_now.s = 59 /\ m_now.weekday = 6

\* seconds from now to the next time the clock shows h:m with the seconds
\* of now
C27_Until(h, m) ==
    LET d == 3600 * h + 60 * m - 60 * C26_MinuteOfDay
    IN  IF d >= 0 THEN d ELSE d + 24 * 3600
\* C27: the report of isMarketHours(True) states a number of hours and of
\* minutes that are not negative: the time left until 16:00 while the
\* market is open, and until the next 09:30 while it is closed, also after
\* 16:00.
C27_TimeUntilNotNegative ==
    m_op = "market" =>
        LET left == IF m_report.open THEN C27_Until(16, 0) ELSE C27_Until(9, 30)
        IN  /\ m_report.hours >= 0 /\ m_report.minutes >= 0
            /\ 3600 * m_report.hours + 60 * m_report.minutes = left


(***************************************************************************)
(* Claims about the Fennel client                                          *)
(***************************************************************************)
\* the requests to the service that carry the Bearer
C24_AuthenticatedRequests ==
    {"account_ids", "portfolio", "searchSecurities", "stockHoldings",
     "isMarketOpen", "isTradable", "createOrder"}
\* C24: no request that needs the Bearer is ever sent without one: every
\* such request carries a Bearer that is set, and an operation under
\* check_login that is called while Bearer is None raises and sends nothing,
\* in every state that __init__, login, refresh_token, _verify_login and
\* _clear_credentials can leave.
C24_NoRequestWithoutBearer ==
    /\ \A i \in 1..Len(f_reqs) :
          f_reqs[i].name \in C24_AuthenticatedRequests => f_reqs[i].bearer # 0
    /\ (f_pre = 0 /\ f_op \in AuthenticatedOps \cup {"place_order"}) =>
          (f_reqs = <<>> /\ f_ret = "raise")
C24_Witness ==
    /\ f_op = "place_order" /\ f_pre = 0 /\ f_ret = "raise" /\ f_reqs = <<>>
    /\ f_issued > 1 /\ f_file.exists /\ f_Refresh # 0

\* the cached Bearer of the latest login verified: the account request
\* succeeded at once, or after one token refresh
C21_Verifies ==
    /\ f_pre # 0
    /\ \/ f_ans.verify.ids = "ok"
       \/ f_ans.verify.refresh = "ok" /\ f_ans.verify.ids2 = "ok"
C21_CodeRequests ==
    {i \in 1..Len(f_reqs) : f_reqs[i].name \in {"start", "exchange"}}
\* C21: a login that holds a cached Bearer which verifies returns True
\* without a passwordless-start or code-exchange request and without asking
\* for a code; a login with no Bearer, or whose Bearer does not verify, goes
\* on to the code-based login.
C21_LoginReusesCachedSession ==
    f_op = "login" =>
        IF C21_Verifies
        THEN f_ret = "True" /\ C21_CodeRequests = {} /\ ~f_prompted
        ELSE C21_CodeRequests # {}
C21_Witness ==
    /\ f_op = "login" /\ C21_Verifies /\ f_ans.verify.ids = "fail"
    /\ f_ret = "True" /\ C21_CodeRequests = {} /\ f_file.exists

\* the names of the requests the latest place_order sent
C25_Names == [i \in 1..Len(t_calls) |-> t_calls[i].api]
\* what the service's answers make of the checks of place_order
C25_SideValid == Lower(t_order.action) \in {s_buy, s_sell}
C25_FromHoldings == t_ans.search = "none" /\ Lower(t_order.action) = s_sell
C25_IsinResolved ==
    \/ t_ans.search = "isin"
    \/ C25_FromHoldings /\ t_ans.holdings = "isin"
C25_ChecksPass ==
    /\ C25_SideValid /\ t_ans.market = "open"
    /\ C25_IsinResolved /\ t_ans.tradable = "yes"
C25_Checks ==
    <<"isMarketOpen", "searchSecurities">>
    \o (IF C25_FromHoldings THEN <<"stockHoldings">> ELSE <<>>)
    \o <<"isTradable">>
\* C25: place_order sends the order-creation request only after the side
\* was validated, the market was found open, an ISIN was resolved (by the
\* search, or from the holdings only for a sell) and the stock was found
\* tradable, in this order; when a check fails it raises and sends no
\* order-creation request; a dry run makes the same checks and sends none.
C25_OrderAfterChecks ==
    (t_adapter = "fennel" /\ t_idx > 0) =>
        /\ InList("createOrder", C25_Names) =>
              /\ C25_ChecksPass /\ ~t_order.dry
              /\ C25_Names = C25_Checks \o <<"createOrder">>
        /\ ~C25_ChecksPass =>
              /\ t_out = <<"Error placing order">>
              /\ ~InList("createOrder", C25_Names)
        /\ t_order.dry =>
              /\ ~InList("createOrder", C25_Names)
              /\ (t_out = <<"Dry Run Success">>
                     <=> (C25_ChecksPass /\ C25_Names = C25_Checks))
        /\ (C25_ChecksPass /\ ~t_order.dry) => InList("createOrder", C25_Names)
C25_Witness ==
    /\ t_adapter = "fennel" /\ t_idx > 0 /\ ~t_order.dry
    /\ C25_FromHoldings /\ C25_ChecksPass
    /\ C25_Names = <<"isMarketOpen", "searchSecurities", "stockHoldings",
                     "isTradable", "createOrder">>

====
